---- MODULE Spec2Model ----
(***************************************************************************)
(* Spreadsheet ingestion and semantic column mapping (Backend/app/utils).  *)
(* Text is modelled as a sequence of one-character strings, so that        *)
(* lower(), strip(), substring tests and digit scans are computed on the   *)
(* characters as the Python code computes them.  Keys of dictionaries      *)
(* (the canonical field names) are TLA+ strings.                           *)
(***************************************************************************)
EXTENDS Integers, Sequences, FiniteSets, TLC

VARIABLES
    columns,      \* df.columns of the table handed to the mapper
    api_key,      \* whether OPENAI_API_KEY is set in the environment
    use_new_api,  \* OpenAIColumnMapper.use_new_api
    outcome,      \* what the classifier call did (raised, or the response content)
    classifier_calls, \* the number of chat completion requests made so far
    mapping,      \* the dictionary the mapper holds / returns
    validation,   \* the dictionary validate_mapping returns
    df_mapped,    \* the mapped table handed to the Data Normalizer
    df_clean,     \* the table the latest clean_mapped_data call returned
    df_prev,      \* the table the call before it returned
    sheets_data,  \* detect_best_sheet_for_analysis: what read_excel_file gave it
    sheet_scores, \* detect_best_sheet_for_analysis: sheet_scores
    detection,    \* what detect_best_sheet_for_analysis returned or raised
    source,       \* read_excel_file: the file at file_path
    sheet_name,   \* read_excel_file: the pinned sheet, or None
    read_result,  \* what read_excel_file returned or raised
    documents,    \* the rows of table sales_documents_storage
    stored_rows,  \* the rows of the users' sales_documents_<user_id> tables
    uploads,      \* the files of directory UPLOAD_DIR
    requests,     \* the locals of the upload_and_process_file calls
    pc            \* position of the running call

vars ==
    <<columns, api_key, use_new_api, outcome, classifier_calls, mapping,
      validation, df_mapped, df_clean, df_prev, sheets_data, sheet_scores,
      detection, source, sheet_name, read_result, documents, stored_rows,
      uploads, requests, pc>>

----------------------------------------------------------------------------
(* Bounds of the model *)

\* largest number of columns of a table handed to the pipeline
MaxCols == 2
\* largest number of columns of a table handed to the local mapper alone
MaxLocalCols == 3
\* largest number of keys outside the canonical schema in a classifier answer
MaxExtra == 1
\* largest number of rows of a mapped table
MaxRows == 2

----------------------------------------------------------------------------
(* Python text operations *)

\* str.lower(): every cased character is replaced by its lower-case form
lower(s) ==
    LET UpperCase == <<"A","B","C","D","E","F","G","H","I","J","K","L","M",
                       "N","O","P","Q","R","S","T","U","V","W","X","Y","Z">>
        LowerCase == <<"a","b","c","d","e","f","g","h","i","j","k","l","m",
                       "n","o","p","q","r","s","t","u","v","w","x","y","z">>
        lower_char(c) ==
            IF \E i \in 1..26 : UpperCase[i] = c
            THEN LowerCase[CHOOSE i \in 1..26 : UpperCase[i] = c]
            ELSE c
    IN  [i \in 1..Len(s) |-> lower_char(s[i])]

\* Python's `kw in s` on strings: kw occurs as a substring of s
contains(s, kw) ==
    \E i \in 0..(Len(s) - Len(kw)) : SubSeq(s, i + 1, i + Len(kw)) = kw

\* any(keyword in s for keyword in kws)
any_in(s, kws) == \E k \in 1..Len(kws) : contains(s, kws[k])

\* Python's `x in list`
in_list(x, xs) == \E k \in 1..Len(xs) : xs[k] = x

Range(s) == {s[i] : i \in 1..Len(s)}

----------------------------------------------------------------------------
(* OpenAIColumnMapper: the canonical schema and the local (fallback) mapper *)

REQUIRED_COLUMNS ==
    <<"Product Name", "Country", "Year", "Month", "Sales Count",
      "Sales Value (usd)", "SOH", "Description", "Type">>

RequiredSet == Range(REQUIRED_COLUMNS)

NOT_FOUND == <<"N","O","T","_","F","O","U","N","D">>   \* "NOT_FOUND"

\* _create_empty_mapping
create_empty_mapping == [f \in RequiredSet |-> NOT_FOUND]

\* the exact_matches table of _fallback_mapping, before the currency override
exact_matches ==
    ("Product Name" :> << <<"C","a","t","e","g","o","r","y">>,   \* "Category"
                          <<"P","r","o","d","u","c","t"," ","N","a","m","e">>,   \* "Product Name"
                          <<"P","r","o","d","u","c","t">> >>) @@   \* "Product"
    ("Country" :> << <<"C","o","u","n","t","r","y">> >>) @@   \* "Country"
    ("Year" :> << <<"Y","e","a","r">> >>) @@   \* "Year"
    ("Month" :> << <<"M","o","n","t","h">> >>) @@   \* "Month"
    ("Sales Count" :> << <<"Q","u","a","n","t","i","t","y">>,   \* "Quantity"
                         <<"Q","t","y">>,   \* "Qty"
                         <<"V","o","l","u","m","e">>,   \* "Volume"
                         <<"C","o","u","n","t">>,   \* "Count"
                         <<"U","n","i","t","s">>,   \* "Units"
                         <<"S","a","l","e","s"," ","C","o","u","n","t">> >>) @@   \* "Sales Count"
    ("Sales Value (usd)" :> << <<"S","a","l","e","s"," ","V","a","l","u","e"," ","(","U","S","D",")">>,   \* "Sales Value (USD)"
                               <<"S","a","l","e","s"," ","V","a","l","u","e"," ","(","u","s","d",")">>,   \* "Sales Value (usd)"
                               <<"S","a","l","e","s"," ","U","S","D">>,   \* "Sales USD"
                               <<"R","e","v","e","n","u","e"," ","U","S","D">>,   \* "Revenue USD"
                               <<"S","a","l","e","s"," ","V","a","l","u","e">>,   \* "Sales Value"
                               <<"E","a","r","n","i","n","g">>,   \* "Earning"
                               <<"E","a","r","n","i","n","g","s">>,   \* "Earnings"
                               <<"R","e","v","e","n","u","e">>,   \* "Revenue"
                               <<"R","e","v","e","n","u","e","s">> >>) @@   \* "Revenues"
    ("SOH" :> << <<"S","O","H"," ","(","V","o","l",")">>,   \* "SOH (Vol)"
                 <<"S","O","H">>,   \* "SOH"
                 <<"S","t","o","c","k">>,   \* "Stock"
                 <<"I","n","v","e","n","t","o","r","y">> >>) @@   \* "Inventory"
    ("Description" :> << <<"I","t","e","m"," ","D","e","s","c","r","i","p","t","i","o","n">>,   \* "Item Description"
                         <<"D","e","s","c","r","i","p","t","i","o","n">>,   \* "Description"
                         <<"D","e","t","a","i","l","s">> >>) @@   \* "Details"
    ("Type" :> << <<"T","y","p","e">>,   \* "Type"
                  <<"C","a","t","e","g","o","r","y">>,   \* "Category"
                  <<"G","r","o","u","p">> >>)   \* "Group"

\* usd_columns: the columns whose lower-cased name holds a USD indicator
usd_columns(cols) ==
    LET usd_keywords == << <<"u","s","d">>,   \* "usd"
                           <<"d","o","l","l","a","r">>,   \* "dollar"
                           <<"$">> >>   \* "$"
    IN  SelectSeq(cols, LAMBDA c : any_in(lower(c), usd_keywords))

\* lc_columns: the elif branch, columns with a local-currency indicator only
lc_columns(cols) ==
    LET lc_keywords == << <<"l","c">>,   \* "lc"
                          <<"l","o","c","a","l"," ","c","u","r","r","e","n","c","y">>,   \* "local currency"
                          <<"l","o","c","a","l">> >>   \* "local"
    IN  SelectSeq(cols, LAMBDA c : /\ usd_columns(<<c>>) = <<>>
                                   /\ any_in(lower(c), lc_keywords))

\* faulty variant of sales_value_names: USD columns are added to the default list instead of replacing it
sales_value_names_appended(cols) ==
    usd_columns(cols) \o lc_columns(cols) \o exact_matches["Sales Value (usd)"]

\* exact_matches["Sales Value (usd)"] after the USD/LC override
sales_value_names(cols) ==
    IF usd_columns(cols) # <<>>
    THEN usd_columns(cols)
    ELSE IF lc_columns(cols) # <<>>
         THEN lc_columns(cols) \o exact_matches["Sales Value (usd)"]
         ELSE exact_matches["Sales Value (usd)"]

\* exact_matches[required_col] as the exact-match loop reads it
exact_names(cols, required_col) ==
    IF required_col = "Sales Value (usd)"
    THEN sales_value_names(cols)
    ELSE exact_matches[required_col]

\* the first of the positions in hits, 0 when there is none
\* (for original_col in df.columns: if ...: ...; break)
first_index(hits) ==
    IF hits = {} THEN 0 ELSE CHOOSE i \in hits : \A j \in hits : i <= j

\* faulty variant of exact_match: the loop does not break and the last matching column wins
exact_match_last(cols, required_col) ==
    LET hits == {i \in 1..Len(cols) : in_list(cols[i], exact_names(cols,
    required_col))}
    IN  IF hits = {} THEN NOT_FOUND
        ELSE cols[CHOOSE i \in hits : \A j \in hits : j <= i]

\* one turn of the exact-match loop: first original column in exact_names
exact_match(cols, required_col) ==
    LET i == first_index({k \in 1..Len(cols) :
                             in_list(cols[k], exact_names(cols,
                             required_col))})
    IN  IF i = 0 THEN NOT_FOUND ELSE cols[i]

\* the mapping after "Try exact matches first"
tier1_mapping(cols) == [f \in RequiredSet |-> exact_match(cols, f)]

\* column_mapping_rules of _fallback_mapping
column_mapping_rules ==
    ("Product Name" :> << <<"c","a","t","e","g","o","r","y">>,   \* "category"
                          <<"p","r","o","d","u","c","t"," ","n","a","m","e">>,   \* "product name"
                          <<"s","k","u">>,   \* "sku"
                          <<"b","a","r","c","o","d","e">>,   \* "barcode"
                          <<"p","r","o","d","u","c","t">>,   \* "product"
                          <<"n","a","m","e">> >>) @@   \* "name"
    ("Country" :> << <<"c","o","u","n","t","r","y">>,   \* "country"
                     <<"n","a","t","i","o","n">>,   \* "nation"
                     <<"r","e","g","i","o","n">>,   \* "region"
                     <<"m","a","r","k","e","t">> >>) @@   \* "market"
    ("Year" :> << <<"y","e","a","r">>,   \* "year"
                  <<"y","r">> >>) @@   \* "yr"
    ("Month" :> << <<"m","o","n","t","h">>,   \* "month"
                   <<"m","o","n">> >>) @@   \* "mon"
    ("Sales Count" :> << <<"q","u","a","n","t","i","t","y">>,   \* "quantity"
                         <<"q","t","y">>,   \* "qty"
                         <<"v","o","l","u","m","e">>,   \* "volume"
                         <<"v","o","l">>,   \* "vol"
                         <<"c","o","u","n","t">>,   \* "count"
                         <<"u","n","i","t","s">>,   \* "units"
                         <<"s","a","l","e","s"," ","c","o","u","n","t">>,   \* "sales count"
                         <<"t","o","t","a","l"," ","q","u","a","n","t","i","t","y">> >>) @@   \* "total quantity"
    ("Sales Value (usd)" :> << <<"s","a","l","e","s"," ","v","a","l","u","e"," ","(","u","s","d",")">>,   \* "sales value (usd)"
                               <<"s","a","l","e","s"," ","v","a","l","u","e"," ","(","u","s","d",")">>,   \* "sales value (usd)"
                               <<"s","a","l","e","s"," ","u","s","d">>,   \* "sales usd"
                               <<"s","a","l","e","s"," ","v","a","l","u","e">>,   \* "sales value"
                               <<"e","a","r","n","i","n","g">>,   \* "earning"
                               <<"e","a","r","n","i","n","g","s">>,   \* "earnings"
                               <<"r","e","v","e","n","u","e"," ","u","s","d">>,   \* "revenue usd"
                               <<"a","m","o","u","n","t"," ","u","s","d">>,   \* "amount usd"
                               <<"v","a","l","u","e"," ","u","s","d">>,   \* "value usd"
                               <<"s","a","l","e","s"," ","v","a","l","u","e"," ","u","s","d">>,   \* "sales value usd"
                               <<"r","e","v","e","n","u","e">>,   \* "revenue"
                               <<"r","e","v","e","n","u","e","s">> >>) @@   \* "revenues"
    ("SOH" :> << <<"s","o","h"," ","(","v","o","l",")">>,   \* "soh (vol)"
                 <<"s","o","h">>,   \* "soh"
                 <<"s","t","o","c","k">>,   \* "stock"
                 <<"i","n","v","e","n","t","o","r","y">>,   \* "inventory"
                 <<"s","t","o","c","k"," ","o","n"," ","h","a","n","d">>,   \* "stock on hand"
                 <<"s","o","h"," ","v","o","l">> >>) @@   \* "soh vol"
    ("Description" :> << <<"i","t","e","m"," ","d","e","s","c","r","i","p","t","i","o","n">>,   \* "item description"
                         <<"d","e","s","c","r","i","p","t","i","o","n">>,   \* "description"
                         <<"d","e","s","c">>,   \* "desc"
                         <<"d","e","t","a","i","l","s">>,   \* "details"
                         <<"n","o","t","e","s">> >>) @@   \* "notes"
    ("Type" :> << <<"t","y","p","e">>,   \* "type"
                  <<"c","a","t","e","g","o","r","y">>,   \* "category"
                  <<"g","r","o","u","p">>,   \* "group"
                  <<"c","l","a","s","s">>,   \* "class"
                  <<"s","u","b">> >>)   \* "sub"

\* one turn of the fuzzy loop for a field the exact pass left NOT_FOUND
fuzzy_match(cols, required_col) ==
    LET usd_indicators == << <<"u","s","d">>,   \* "usd"
                             <<"d","o","l","l","a","r">>,   \* "dollar"
                             <<"$">>,   \* "$"
                             <<"u","s">> >>   \* "us"
        sales_words == << <<"s","a","l","e","s">>,   \* "sales"
                          <<"r","e","v","e","n","u","e">>,   \* "revenue"
                          <<"v","a","l","u","e">>,   \* "value"
                          <<"a","m","o","u","n","t">>,   \* "amount"
                          <<"e","a","r","n","i","n","g">> >>   \* "earning"
        partial(c) ==
            /\ \E k \in 1..Len(column_mapping_rules[required_col]) :
                   contains(lower(c),
                   lower(column_mapping_rules[required_col][k]))
            /\ ~(required_col = "Sales Count" /\ lower(c) = <<"c","o","u","n","t","r","y">>)   \* "country"
        i == first_index({k \in 1..Len(cols) : partial(cols[k])})
        usd_sales(c) == /\ any_in(lower(c), usd_indicators)
                        /\ any_in(lower(c), sales_words)
        j == first_index({k \in 1..Len(cols) : usd_sales(cols[k])})
    IN  IF i # 0 THEN cols[i]
        ELSE IF required_col = "Sales Value (usd)" /\ j # 0 THEN cols[j]
        ELSE NOT_FOUND

\* the mapping after the fuzzy pass over m, the mapping of the exact pass
tier2_mapping(cols, m) ==
    IF \E f \in DOMAIN m : m[f] = NOT_FOUND
    THEN [f \in DOMAIN m |->
             IF m[f] = NOT_FOUND THEN fuzzy_match(cols, f) ELSE m[f]]
    ELSE m

\* _fallback_mapping(df)
fallback_mapping(cols) == tier2_mapping(cols, tier1_mapping(cols))

----------------------------------------------------------------------------
(* The classifier call and the parsing of its answer *)

\* a key outside the canonical schema that a classifier answer may carry
extra_key(j) == "extra_" \o ToString(j)

\* a column name that the tables of the model never hold
GhostColumn == <<"Q","t","y">>   \* "Qty"

\* A JSON object answering the first n canonical fields and e extra keys,
\* every answered key with the value b.
answer(n, b, e) ==
    [k \in {REQUIRED_COLUMNS[i] : i \in 1..n} \cup {extra_key(j) : j \in 1..e} |-> b]

\* The response text, as what the parser reads of it: the opening fence
\* ("none", "```json", or a plain "```"), whether it ends with "```", and
\* the JSON document between them.
Fences ==
    { [open |-> "none", close |-> FALSE],
      [open |-> "json", close |-> TRUE],
      [open |-> "plain", close |-> TRUE] }

JsonBodies(cols) ==
    { [t |-> "invalid"], [t |-> "array"] } \cup
    { [t |-> "object", m |-> answer(n, b, e)] :
        n \in 0..Len(REQUIRED_COLUMNS),
        b \in Range(cols) \cup {NOT_FOUND, GhostColumn},
        e \in 0..MaxExtra }

\* What the classifier call can do: raise, return no content, return a text
Outcomes(cols) ==
    { [kind |-> "raise"], [kind |-> "no_content"] } \cup
    { [kind |-> "content", open |-> f.open, close |-> f.close, body |-> b] :
        f \in Fences, b \in JsonBodies(cols) }

\* response_content[7:] when it starts with "```json", [:-3] when it ends with "```"
strip_fences(content) ==
    [content EXCEPT !.open = IF @ = "json" THEN "none" ELSE @,
                    !.close = FALSE]

\* for required_col in REQUIRED_COLUMNS: if required_col not in mapping: ...
fill_required(parsed) ==
    [k \in DOMAIN parsed \cup RequiredSet |->
        IF k \in DOMAIN parsed THEN parsed[k] ELSE NOT_FOUND]

\* _parse_openai_response(content)
parse_openai_response(o) ==
    IF o.kind = "no_content"
    THEN create_empty_mapping             \* None.strip(): except Exception
    ELSE LET text == strip_fences(o)
         IN  IF text.open # "none" \/ text.body.t = "invalid"
             THEN create_empty_mapping    \* json.JSONDecodeError
             ELSE IF text.body.t # "object"
             THEN create_empty_mapping    \* TypeError on item assignment
             ELSE fill_required(text.body.m)

\* map_columns_with_openai(df, sample_size), the classifier having done o
map_columns_with_openai(cols, o) ==
    IF o.kind = "raise"
    THEN fallback_mapping(cols)
    ELSE parse_openai_response(o)

\* the quality bucket of validate_mapping; success_rate = successful / total
\* is compared with 0.8, 0.6, 0.4 (x/y >= 0.8 iff 10x >= 8y for y > 0)
mapping_quality(successful, total) ==
    IF 10 * successful >= 8 * total THEN "excellent"
    ELSE IF 10 * successful >= 6 * total THEN "good"
    ELSE IF 10 * successful >= 4 * total THEN "fair"
    ELSE "poor"

\* faulty variant of validate_mapping: a value that is no column of the table counts as mapped
validate_mapping_unchecked(cols, m) ==
    LET mapped == {k \in DOMAIN m : m[k] # NOT_FOUND}
    IN  [ mapped_columns |-> [k \in mapped |-> m[k]],
          missing_columns |-> DOMAIN m \ mapped,
          total_mappings |-> Cardinality(DOMAIN m),
          successful_mappings |-> Cardinality(mapped),
          mapping_quality |-> mapping_quality(Cardinality(mapped),
                                              Cardinality(DOMAIN m)) ]

\* validate_mapping(df, mapping)
validate_mapping(cols, m) ==
    LET mapped == {k \in DOMAIN m : m[k] # NOT_FOUND /\ m[k] \in Range(cols)}
    IN  [ mapped_columns |-> [k \in mapped |-> m[k]],
          missing_columns |-> DOMAIN m \ mapped,
          total_mappings |-> Cardinality(DOMAIN m),
          successful_mappings |-> Cardinality(mapped),
          mapping_quality |-> mapping_quality(Cardinality(mapped),
                                              Cardinality(DOMAIN m)) ]

----------------------------------------------------------------------------
(* Data Normalizer: cell values and the pandas / Python conversions *)

\* A cell is NaN (pandas' missing marker), a Python int, a float with one
\* decimal digit (w.f), infinity, or text.
NaN == [t |-> "nan"]
Inf == [t |-> "inf"]
int_cell(v) == [t |-> "int", v |-> v]
float_cell(w, f) == [t |-> "float", w |-> w, f |-> f]
str_cell(s) == [t |-> "str", v |-> s]

Digits == <<"0","1","2","3","4","5","6","7","8","9">>

\* a character for which str.isdigit() is True and int() raises ValueError:
\* U+00B2, category No (not a decimal digit)
SuperscriptTwo == "SUPERSCRIPT TWO"

Whitespace == {" ", "\t", "\n"}

is_decimal(c) == \E d \in 1..10 : Digits[d] = c
digit_value(c) == (CHOOSE d \in 1..10 : Digits[d] = c) - 1

\* str.strip()
strip(s) ==
    LET keep == {i \in 1..Len(s) : s[i] \notin Whitespace}
    IN  IF keep = {} THEN <<>>
        ELSE SubSeq(s, CHOOSE i \in keep : \A j \in keep : i <= j,
                       CHOOSE i \in keep : \A j \in keep : j <= i)

\* str.isdigit(): non-empty, every character a digit in Python's sense
isdigit(s) ==
    /\ Len(s) > 0
    /\ \A i \in 1..Len(s) : is_decimal(s[i]) \/ s[i] = SuperscriptTwo

\* whether int(s) parses (s already stripped): decimal digits only
int_parses(s) == Len(s) > 0 /\ \A i \in 1..Len(s) : is_decimal(s[i])

\* int(s) for a string of decimal digits
RECURSIVE int_of(_)
int_of(s) ==
    IF Len(s) = 0 THEN 0
    ELSE 10 * int_of(SubSeq(s, 1, Len(s) - 1)) + digit_value(s[Len(s)])

\* str(n) for an int n >= 0
RECURSIVE str_of_int(_)
str_of_int(n) ==
    IF n < 10 THEN <<Digits[n + 1]>>
    ELSE Append(str_of_int(n \div 10), Digits[(n % 10) + 1])

\* str(value) / astype(str) of a cell
str_of(cell) ==
    CASE cell.t = "nan" -> <<"n","a","n">>   \* "nan"
      [] cell.t = "inf" -> <<"i","n","f">>   \* "inf"
      [] cell.t = "int" -> str_of_int(cell.v)
      [] cell.t = "float" -> str_of_int(cell.w) \o <<".">> \o str_of_int(cell.f)   \* "."
      [] cell.t = "str" -> cell.v

\* re.findall(r'\d+', s)[0]: the first maximal run of decimal digits, <<>> if none
first_number(s) ==
    LET starts == {i \in 1..Len(s) : is_decimal(s[i])}
    IN  IF starts = {} THEN <<>>
        ELSE LET a == CHOOSE i \in starts : \A j \in starts : i <= j
                 ends == {i \in a..Len(s) : \A j \in a..i : is_decimal(s[j])}
                 b == CHOOSE i \in ends : \A j \in ends : j <= i
             IN  SubSeq(s, a, b)

\* pd.to_numeric(x, errors='coerce') on one cell: a float, Inf or NaN.
\* Text is read after trimming whitespace: decimal digits, "inf"/"infinity",
\* anything else (also "nan") is NaN.
to_numeric(cell) ==
    CASE cell.t = "nan" -> NaN
      [] cell.t = "inf" -> Inf
      [] cell.t = "int" -> float_cell(cell.v, 0)
      [] cell.t = "float" -> cell
      [] cell.t = "str" ->
            IF int_parses(strip(cell.v)) THEN float_cell(int_of(strip(cell.v)),
            0)
            ELSE IF lower(strip(cell.v)) \in {<<"i","n","f">>,   \* "inf"
                                              <<"i","n","f","i","n","i","t","y">>} THEN Inf   \* "infinity"
            ELSE NaN

\* .fillna(0)
fillna0(cell) == IF cell.t = "nan" THEN float_cell(0, 0) ELSE cell

\* whether .astype(int) raises on the cell (non-finite value)
astype_int_raises(cell) == cell.t \in {"nan", "inf"}

\* .astype(int) of a finite number: truncation
astype_int(cell) == IF cell.t = "float" THEN int_cell(cell.w) ELSE cell

month_mapping ==
    << <<<<"j","a","n">>, 1>>,   \* "jan"
         <<<<"j","a","n","u","a","r","y">>, 1>>,   \* "january"
         <<<<"f","e","b">>, 2>>,   \* "feb"
         <<<<"f","e","b","r","u","a","r","y">>, 2>>,   \* "february"
       <<<<"m","a","r">>, 3>>,   \* "mar"
         <<<<"m","a","r","c","h">>, 3>>,   \* "march"
         <<<<"a","p","r">>, 4>>,   \* "apr"
         <<<<"a","p","r","i","l">>, 4>>,   \* "april"
       <<<<"m","a","y">>, 5>>,   \* "may"
         <<<<"j","u","n">>, 6>>,   \* "jun"
         <<<<"j","u","n","e">>, 6>>,   \* "june"
         <<<<"j","u","l">>, 7>>,   \* "jul"
       <<<<"j","u","l","y">>, 7>>,   \* "july"
         <<<<"a","u","g">>, 8>>,   \* "aug"
         <<<<"a","u","g","u","s","t">>, 8>>,   \* "august"
         <<<<"s","e","p">>, 9>>,   \* "sep"
       <<<<"s","e","p","t","e","m","b","e","r">>, 9>>,   \* "september"
         <<<<"o","c","t">>, 10>>,   \* "oct"
         <<<<"o","c","t","o","b","e","r">>, 10>>,   \* "october"
       <<<<"n","o","v">>, 11>>,   \* "nov"
         <<<<"n","o","v","e","m","b","e","r">>, 11>>,   \* "november"
         <<<<"d","e","c">>, 12>>,   \* "dec"
       <<<<"d","e","c","e","m","b","e","r">>, 12>> >>   \* "december"

in_month_mapping(s) == \E k \in 1..Len(month_mapping) : month_mapping[k][1] = s
month_of(s) == month_mapping[CHOOSE k \in 1..Len(month_mapping) : month_mapping[k][1] = s][2]

\* month_num if 1 <= month_num <= 12 else 0
in_range_or_zero(n) == IF 1 <= n /\ n <= 12 THEN n ELSE 0

\* whether normalize_month(value) raises: int() of an isdigit() string that
\* is not made of decimal digits
normalize_month_raises(cell) ==
    /\ cell.t # "nan"
    /\ isdigit(strip(lower(str_of(cell))))
    /\ ~int_parses(strip(lower(str_of(cell))))

\* normalize_month(value), when it does not raise
normalize_month(cell) ==
    IF cell.t = "nan" THEN 0
    ELSE LET value_str == strip(lower(str_of(cell)))
         IN  IF isdigit(value_str) THEN in_range_or_zero(int_of(value_str))
             ELSE IF in_month_mapping(value_str) THEN month_of(value_str)
             ELSE IF first_number(value_str) # <<>>
                  THEN in_range_or_zero(int_of(first_number(value_str)))
             ELSE 0

\* the except branch of _normalize_month_column:
\* pd.to_numeric(month_series, errors='coerce').fillna(0).astype(int)
month_fallback(series) ==
    [i \in 1..Len(series) |-> astype_int(fillna0(to_numeric(series[i])))]

\* whether _normalize_month_column(series) raises (the except branch itself fails)
normalize_month_column_raises(series) ==
    /\ \E i \in 1..Len(series) : normalize_month_raises(series[i])
    /\ \E i \in 1..Len(series) : astype_int_raises(fillna0(to_numeric(series[i])))

\* _normalize_month_column(month_series), when it does not raise
normalize_month_column(series) ==
    IF \E i \in 1..Len(series) : normalize_month_raises(series[i])
    THEN month_fallback(series)
    ELSE [i \in 1..Len(series) |-> int_cell(normalize_month(series[i]))]

numeric_columns == {"Sales Count", "Sales Value (usd)", "SOH"}
\* of text_columns, 'Category or product name' is no column of a mapped table
text_columns == {"Category or product name", "Country", "Description", "Type"}

\* .astype(str).str.strip() followed by .replace('nan', 'Unknown')
clean_text(cell) ==
    IF strip(str_of(cell)) = <<"n","a","n">>   \* "nan"
    THEN str_cell(<<"U","n","k","n","o","w","n">>)   \* "Unknown"
    ELSE str_cell(strip(str_of(cell)))

\* column f of table df as a series
column_of(df, f) == [i \in 1..Len(df) |-> df[i][f]]

\* df.dropna(how='all'): the rows with at least one non-null cell
dropna_all(df) == SelectSeq(df, LAMBDA row : \E f \in DOMAIN row : row[f].t # "nan")

\* whether the try block of clean_mapped_data raises
clean_raises(df) ==
    LET d == dropna_all(df)
    IN  \/ \E i \in 1..Len(d) : astype_int_raises(fillna0(to_numeric(d[i]["Year"])))
        \/ normalize_month_column_raises(column_of(d, "Month"))

\* clean_mapped_data(df)
clean_mapped_data(df) ==
    IF clean_raises(df) THEN df
    ELSE LET d == dropna_all(df)
             month == normalize_month_column(column_of(d, "Month"))
         IN  [i \in 1..Len(d) |->
                [f \in DOMAIN d[i] |->
                    CASE f \in numeric_columns -> fillna0(to_numeric(d[i][f]))
                      [] f \in text_columns -> clean_text(d[i][f])
                      [] f = "Year" -> astype_int(fillna0(to_numeric(d[i][f])))
                      [] f = "Month" -> month[i]
                      [] OTHER -> d[i][f]]]


----------------------------------------------------------------------------
(* detect_best_sheet_for_analysis: the score of a sheet.  A sheet read    *)
(* from the file is the record of what the scoring reads of its table:    *)
(* name, columns (df.columns), non_empty_rows (len(df.dropna(how='all'))) *)
(* and numeric_data (per column, the number of cells pd.to_numeric makes  *)
(* a number of).  Scores are counted in units of 1/200 point, so that     *)
(* non_empty_rows / 200 and numeric_data / 100 are whole numbers.         *)

\* the units of one point of the score
Point == 200
\* largest number of sheets of a workbook
MaxSheets == 2
\* largest number of non-empty rows of a sheet
MaxSheetRows == 6000

Min(a, b) == IF a <= b THEN a ELSE b
Max(a, b) == IF a >= b THEN a ELSE b

RECURSIVE Sum(_)
\* sum of a sequence of numbers
Sum(ns) == IF ns = <<>> THEN 0 ELSE Head(ns) + Sum(Tail(ns))

RECURSIVE join(_)
\* ' '.join(texts)
join(texts) ==
    IF texts = <<>> THEN <<>>
    ELSE IF Len(texts) = 1 THEN texts[1]
    ELSE texts[1] \o <<" ">> \o join(Tail(texts))

\* ' '.join([str(col).lower() for col in df.columns])
column_text(cols) == join([j \in 1..Len(cols) |-> lower(cols[j])])

\* sales_keywords: keyword and weight in points
sales_keywords ==
    << <<<<"s","a","l","e","s">>, 15>>,   \* "sales"
         <<<<"r","e","v","e","n","u","e">>, 15>>,   \* "revenue"
         <<<<"a","m","o","u","n","t">>, 10>>,   \* "amount"
       <<<<"v","a","l","u","e">>, 10>>,   \* "value"
         <<<<"e","a","r","n","i","n","g">>, 10>>,   \* "earning"
       <<<<"p","r","o","d","u","c","t">>, 12>>,   \* "product"
         <<<<"i","t","e","m">>, 12>>,   \* "item"
         <<<<"d","e","s","c","r","i","p","t","i","o","n">>, 8>>,   \* "description"
       <<<<"q","u","a","n","t","i","t","y">>, 10>>,   \* "quantity"
         <<<<"q","t","y">>, 10>>,   \* "qty"
         <<<<"v","o","l","u","m","e">>, 8>>,   \* "volume"
       <<<<"i","m","s">>, 8>>,   \* "ims"
         <<<<"s","o","h">>, 6>>,   \* "soh"
       <<<<"c","a","t","e","g","o","r","y">>, 8>>,   \* "category"
         <<<<"t","y","p","e">>, 6>>,   \* "type"
         <<<<"g","r","o","u","p">>, 6>>,   \* "group"
       <<<<"p","r","i","c","e">>, 8>>,   \* "price"
         <<<<"c","o","s","t">>, 6>>,   \* "cost"
         <<<<"r","a","t","e">>, 6>>,   \* "rate"
         <<<<"p","t","t">>, 6>>,   \* "ptt"
       <<<<"c","o","u","n","t","r","y">>, 6>>,   \* "country"
         <<<<"r","e","g","i","o","n">>, 6>>,   \* "region"
         <<<<"m","a","r","k","e","t">>, 6>>,   \* "market"
       <<<<"y","e","a","r">>, 5>>,   \* "year"
         <<<<"m","o","n","t","h">>, 5>>,   \* "month"
         <<<<"d","a","t","e">>, 5>>,   \* "date"
       <<<<"c","u","s","t","o","m","e","r">>, 5>>,   \* "customer"
         <<<<"c","l","i","e","n","t">>, 5>>,   \* "client"
       <<<<"p","r","o","f","i","t">>, 10>>,   \* "profit"
         <<<<"m","a","r","g","i","n">>, 8>>,   \* "margin"
         <<<<"g","a","i","n">>, 8>> >>   \* "gain"

\* faulty variant of keyword_score: every keyword found counts one point
keyword_score_unweighted(cols) ==
    LET text == column_text(cols)
    IN  Sum([k \in 1..Len(sales_keywords) |->
                IF contains(text, sales_keywords[k][1]) THEN Point ELSE 0])

\* for keyword, weight in sales_keywords.items(): if keyword in column_text
keyword_score(cols) ==
    LET text == column_text(cols)
    IN  Sum([k \in 1..Len(sales_keywords) |->
                IF contains(text, sales_keywords[k][1])
                THEN sales_keywords[k][2] * Point ELSE 0])

\* the if / elif / elif on one column name: value, item or quantity column
pattern_score(col) ==
    IF any_in(lower(col), << <<"s","a","l","e","s">>,   \* "sales"
                             <<"r","e","v","e","n","u","e">>,   \* "revenue"
                             <<"a","m","o","u","n","t">>,   \* "amount"
                             <<"v","a","l","u","e">> >>)   \* "value"
    THEN 5 * Point
    ELSE IF any_in(lower(col), << <<"p","r","o","d","u","c","t">>,   \* "product"
                                  <<"i","t","e","m">>,   \* "item"
                                  <<"d","e","s","c","r","i","p","t","i","o","n">> >>)   \* "description"
    THEN 3 * Point
    ELSE IF any_in(lower(col), << <<"q","u","a","n","t","i","t","y">>,   \* "quantity"
                                  <<"q","t","y">>,   \* "qty"
                                  <<"v","o","l","u","m","e">>,   \* "volume"
                                  <<"i","m","s">> >>)   \* "ims"
    THEN 3 * Point
    ELSE 0

\* score += min(non_empty_rows / 200, 15) when there is a non-empty row
volume_score(non_empty_rows) ==
    IF non_empty_rows > 0 THEN Min(non_empty_rows, 15 * Point) ELSE 0

\* the columns whose cells are counted for numeric data
is_sales_column(col) ==
    any_in(lower(col), << <<"s","a","l","e","s">>,   \* "sales"
                          <<"r","e","v","e","n","u","e">>,   \* "revenue"
                          <<"a","m","o","u","n","t">>,   \* "amount"
                          <<"v","a","l","u","e">>,   \* "value"
                          <<"q","u","a","n","t","i","t","y">>,   \* "quantity"
                          <<"q","t","y">>,   \* "qty"
                          <<"i","m","s">> >>)   \* "ims"

\* numeric_data_score: min(numeric_data / 100, 10) per counted column
numeric_data_score(sheet) ==
    Sum([j \in 1..Len(sheet.columns) |->
            IF is_sales_column(sheet.columns[j]) /\ sheet.numeric_data[j] > 0
            THEN Min(2 * sheet.numeric_data[j], 10 * Point) ELSE 0])

\* str(col).startswith('Unnamed')
is_unnamed(col) == Len(col) >= 7 /\ SubSeq(col, 1, 7) = <<"U","n","n","a","m","e","d">>   \* "Unnamed"

\* unnamed_cols, as the number of them
unnamed_columns(cols) == Cardinality({j \in 1..Len(cols) : is_unnamed(cols[j])})

\* score -= 20 when len(unnamed_cols) > len(df.columns) * 0.7
unnamed_penalty(cols) ==
    IF 10 * unnamed_columns(cols) > 7 * Len(cols) THEN 20 * Point ELSE 0

\* score += 10 for a sheet name suggesting sales data
sheet_name_bonus(name) ==
    IF any_in(lower(name), << <<"s","a","l","e","s">>,   \* "sales"
                              <<"r","e","v","e","n","u","e">>,   \* "revenue"
                              <<"r","a","w">>,   \* "raw"
                              <<"d","a","t","a">>,   \* "data"
                              <<"r","e","p","o","r","t">>,   \* "report"
                              <<"s","i","s","o">>,   \* "siso"
                              <<"q","1">> >>)   \* "q1"
    THEN 10 * Point ELSE 0

\* score, before it is recorded
raw_score(sheet) ==
    keyword_score(sheet.columns)
    + Sum([j \in 1..Len(sheet.columns) |-> pattern_score(sheet.columns[j])])
    + volume_score(sheet.non_empty_rows)
    + Min(numeric_data_score(sheet), 20 * Point)
    - unnamed_penalty(sheet.columns)
    + sheet_name_bonus(sheet.name)

\* faulty variant of recorded_score: the score is recorded as computed
recorded_score_unclamped(score) == score

\* 'score': max(0, score)
recorded_score(score) == Max(0, score)

\* sheet_scores[sheet_name] for one sheet
score_entry(sheet) ==
    [ name |-> sheet.name,
      score |-> recorded_score(raw_score(sheet)),
      non_empty_rows |-> sheet.non_empty_rows,
      unnamed_columns |-> unnamed_columns(sheet.columns),
      numeric_data_score |-> numeric_data_score(sheet) ]

\* faulty variant of nothing_scored: a workbook whose sheets all score 0 counts as empty
nothing_scored_or_all_zero(scores) ==
    \A i \in 1..Len(scores) : scores[i].score = 0

\* not sheet_scores
nothing_scored(scores) == Len(scores) = 0

\* max(sheet_scores.keys(), key=...): the first sheet with the largest score
best_index(scores) ==
    CHOOSE i \in 1..Len(scores) :
        /\ \A j \in 1..Len(scores) : scores[j].score <= scores[i].score
        /\ \A j \in 1..(i - 1) : scores[j].score < scores[i].score

\* the error texts, as the chain of messages the except clauses build
NoSheetsFound == <<"N","o"," ","s","h","e","e","t","s"," ","f","o","u","n","d"," ","i","n"," ","t","h","e"," ","f","i","l","e">>   \* "No sheets found in the file"
ErrorDetecting == <<"E","r","r","o","r"," ","d","e","t","e","c","t","i","n","g"," ","b","e","s","t"," ","s","h","e","e","t",":"," ">>   \* "Error detecting best sheet: "
ErrorProcessingExcel == <<"E","r","r","o","r"," ","p","r","o","c","e","s","s","i","n","g"," ","E","x","c","e","l"," ","f","i","l","e",":"," ">>   \* "Error processing Excel file: "
\* the message of the exception the library raised on the file
UnderlyingCause == <<"c","a","u","s","e">>   \* "cause"

\* raise Exception(prefix + str(e))
raised(message) == [kind |-> "raised", message |-> message]

\* lines 148-169: the result of detect_best_sheet_for_analysis
select_best(scores) ==
    IF nothing_scored(scores)
    THEN raised(ErrorDetecting \o NoSheetsFound)
    ELSE [ kind |-> "returned",
           best_sheet |-> scores[best_index(scores)].name,
           sheet_scores |-> scores,
           sufficient |-> scores[best_index(scores)].score >= 10 * Point,
           best_score |-> scores[best_index(scores)].score ]

----------------------------------------------------------------------------
(* read_excel_file: a sheet of a file is the grid of its cells, a sequence *)
(* of rows of equal width as pandas holds them (no trailing empty row, no  *)
(* value twice in a row); an empty cell is NaN.  A table (DataFrame) is    *)
(* the record of its column labels and its rows.                           *)

\* Python's None
None == [kind |-> "None"]

\* pd.DataFrame()
EmptyTable == [columns |-> <<>>, data |-> <<>>]

\* pd.read_excel(file_path, sheet_name=sheet_name, header=header) on a sheet
\* that loads: row `header` gives the labels, the rows below it the data;
\* an empty header cell of column j (counted from 0) is labelled "Unnamed: j"
read_excel(grid, header) ==
    IF Len(grid) = 0 THEN EmptyTable
    ELSE [ columns |-> [j \in 1..Len(grid[header + 1]) |->
                           IF grid[header + 1][j] = NaN
                           THEN str_cell(<<"U","n","n","a","m","e","d",":"," ">> \o str_of_int(j - 1))   \* "Unnamed: "
                           ELSE grid[header + 1][j]],
           data |-> SubSeq(grid, header + 2, Len(grid)) ]

\* unnamed_cols of a table, as the number of them
unnamed_count(cols) ==
    Cardinality({j \in 1..Len(cols) : is_unnamed(str_of(cols[j]))})

\* len(unnamed_cols) > len(df.columns) * 0.5
mostly_unnamed(cols) == 2 * unnamed_count(cols) > Len(cols)

\* sales_keywords of _is_valid_header
header_keywords ==
    << <<"s","a","l","e","s">>,   \* "sales"
       <<"p","r","o","d","u","c","t">>,   \* "product"
       <<"i","t","e","m">>,   \* "item"
       <<"c","a","t","e","g","o","r","y">>,   \* "category"
       <<"q","u","a","n","t","i","t","y">>,   \* "quantity"
       <<"p","r","i","c","e">>,   \* "price"
       <<"r","e","v","e","n","u","e">>,   \* "revenue"
       <<"p","r","o","f","i","t">>,   \* "profit"
       <<"c","o","u","n","t","r","y">>,   \* "country"
       <<"y","e","a","r">>,   \* "year"
       <<"m","o","n","t","h">> >>   \* "month"

\* _is_valid_header(columns)
is_valid_header(cols) ==
    IF Len(cols) = 0 THEN FALSE
    ELSE LET text == join([j \in 1..Len(cols) |-> lower(str_of(cols[j]))])
             keyword_count ==
                 Cardinality({k \in 1..Len(header_keywords) :
                                 contains(text, header_keywords[k])})
         IN  keyword_count >= 2 /\ 2 * unnamed_count(cols) < Len(cols)

\* sales_keywords of _infer_headers_from_data
infer_keywords ==
    << <<"s","a","l","e","s">>,   \* "sales"
       <<"p","r","o","d","u","c","t">>,   \* "product"
       <<"i","t","e","m">>,   \* "item"
       <<"c","a","t","e","g","o","r","y">>,   \* "category"
       <<"q","u","a","n","t","i","t","y">>,   \* "quantity"
       <<"p","r","i","c","e">>,   \* "price"
       <<"r","e","v","e","n","u","e">>,   \* "revenue"
       <<"p","r","o","f","i","t">> >>   \* "profit"

\* ' '.join([str(val).lower() for val in row if pd.notna(val)])
row_text(row) ==
    join([k \in 1..Len(SelectSeq(row, LAMBDA c : c # NaN)) |->
             lower(str_of(SelectSeq(row, LAMBDA c : c # NaN)[k]))])

\* faulty variant of infer_headers_from_data: the header row stays in the data
infer_headers_keeping_row(df) ==
    LET i == first_index({k \in 1..Min(5, Len(df.data)) :
                             any_in(row_text(df.data[k]), infer_keywords)})
    IN  IF i = 0 THEN df
        ELSE [ columns |-> [j \in 1..Len(df.data[i]) |->
                               IF df.data[i][j] # NaN
                               THEN str_cell(str_of(df.data[i][j]))
                               ELSE str_cell(<<"C","o","l","u","m","n","_">> \o str_of_int(j - 1))],   \* "Column_"
               data |-> df.data ]

\* _infer_headers_from_data(df): the first of the first five rows that holds
\* a keyword becomes the header and leaves the data
infer_headers_from_data(df) ==
    LET i == first_index({k \in 1..Min(5, Len(df.data)) :
                             any_in(row_text(df.data[k]), infer_keywords)})
    IN  IF i = 0 THEN df
        ELSE [ columns |-> [j \in 1..Len(df.data[i]) |->
                               IF df.data[i][j] # NaN
                               THEN str_cell(str_of(df.data[i][j]))
                               ELSE str_cell(<<"C","o","l","u","m","n","_">> \o str_of_int(j - 1))],   \* "Column_"
               data |-> SubSeq(df.data, 1, i - 1)
                            \o SubSeq(df.data, i + 1, Len(df.data)) ]

\* the largest header row the search may try, plus one
HeaderSearchRows == 10

\* faulty variant of found_header_row: the last valid row of the search wins
found_header_row_last(grid) ==
    LET valid == {h \in 1..(Min(HeaderSearchRows, Len(grid) - 1) - 1) :
                     is_valid_header(read_excel(grid, h).columns)}
    IN  IF valid = {} THEN 0 ELSE CHOOSE h \in valid : \A k \in valid : k <= h

\* for header_row in range(1, min(10, len(df))): the first row whose labels
\* are a valid header, 0 when the loop ends without one
found_header_row(grid) ==
    first_index({h \in 1..(Min(HeaderSearchRows, Len(grid) - 1) - 1) :
                    is_valid_header(read_excel(grid, h).columns)})

\* the try block of _read_sheet_with_header_detection on a sheet that loads
detect_header(grid) ==
    LET df == read_excel(grid, 0)
    IN  IF mostly_unnamed(df.columns)
        THEN IF found_header_row(grid) # 0
             THEN read_excel(grid, found_header_row(grid))
             ELSE infer_headers_from_data(df)
        ELSE df

\* a file is the record of its type, whether the library can open and
\* decode it, and its sheets (for a CSV file the one table, named after
\* the file)
sheet_of(src, name) ==
    src.sheets[CHOOSE i \in 1..Len(src.sheets) : src.sheets[i].name = name]

\* whether pd.read_excel(file_path, sheet_name=name) loads a sheet
sheet_loads(src, name) ==
    src.readable /\ \E i \in 1..Len(src.sheets) : src.sheets[i].name = name

\* _read_sheet_with_header_detection(file_path, sheet_name): the except
\* clause answers an error of the library with an empty table
read_sheet_with_header_detection(src, name) ==
    IF sheet_loads(src, name)
    THEN detect_header(sheet_of(src, name).grid)
    ELSE EmptyTable

\* _read_csv_with_header_detection(file_path): when no encoding reads the
\* file the last read_csv call raises as well and the except clause answers
\* with an empty table
read_csv_with_header_detection(src) ==
    IF src.readable
    THEN detect_header(src.sheets[1].grid)
    ELSE EmptyTable

\* {sheet: {'data': df, 'columns': df.columns.tolist(), 'shape': df.shape}}
sheet_info(name, df) ==
    [ name |-> name, data |-> df, columns |-> df.columns,
      shape |-> <<Len(df.data), Len(df.columns)>> ]

\* sheet_name=None, or the name of the pinned sheet
pinned(name) == [kind |-> "pinned", name |-> name]

\* read_excel_file(file_path, sheet_name)
read_excel_file(src, sheet) ==
    IF src.type = "csv"
    THEN [ kind |-> "returned",
           sheets |-> << sheet_info(src.sheets[1].name,
                                    read_csv_with_header_detection(src)) >> ]
    ELSE IF sheet # None
    THEN [ kind |-> "returned",
           sheets |-> << sheet_info(sheet.name,
                            read_sheet_with_header_detection(src,
                            sheet.name)) >> ]
    ELSE IF ~src.readable
    THEN raised(ErrorProcessingExcel \o UnderlyingCause)
    ELSE [ kind |-> "returned",
           sheets |-> [i \in 1..Len(src.sheets) |->
                          sheet_info(src.sheets[i].name,
                              read_sheet_with_header_detection(
                                  src, src.sheets[i].name))] ]

----------------------------------------------------------------------------
(* upload_and_process_file and the tables of SupabaseService.  A document  *)
(* record is a row of sales_documents_storage, a stored row a row of a     *)
(* user's sales table; the file of a request is the record of its name and *)
(* its bytes.  The table the pipeline makes of a local file is named by    *)
(* the bytes it was read from.                                             *)

\* s.endswith(suffix)
endswith(s, suffix) ==
    Len(s) >= Len(suffix) /\ SubSeq(s, Len(s) - Len(suffix) + 1,
    Len(s)) = suffix

\* file.filename.endswith(('.xlsx', '.xls', '.csv'))
allowed_file(filename) ==
    \/ endswith(filename,   \* 
                          <<".","x","l","s","x">>)   \* ".xlsx"
    \/ endswith(filename,   \* 
                          <<".","x","l","s">>)   \* ".xls"
    \/ endswith(filename,   \* 
                          <<".","c","s","v">>)   \* ".csv"

\* check_duplicate_document(document_name, user_id, brand_id): the newest
\* matching record (order by created_at desc, limit 1), None without one
check_duplicate_document(docs, name, user, brand) ==
    LET hits == {i \in 1..Len(docs) : /\ docs[i].document_name = name
                                      /\ docs[i].user_id = user
                                      /\ docs[i].brand_id = brand}
        last_index == CHOOSE i \in hits : \A j \in hits : j <= i
    IN  IF hits = {} THEN None
        ELSE LET existing_doc == docs[last_index]
             IN  [ kind |-> "found",
                   document_id |-> existing_doc.document_id,
                   status |-> existing_doc.status,
                   is_duplicate |-> existing_doc.status \in {"processing", "success"},
                   can_retry |-> existing_doc.status = "failed" ]

\* insert_document_storage_metadata(..., status="processing")
insert_document_storage_metadata(docs, name, user, brand, id) ==
    Append(docs, [ document_name |-> name, user_id |-> user,
    brand_id |-> brand,
                   document_id |-> id, status |-> "processing" ])

\* update_document_storage_status(document_id, status)
update_document_storage_status(docs, id, status) ==
    [i \in 1..Len(docs) |->
        IF docs[i].document_id = id THEN [docs[i] EXCEPT !.status = status]
        ELSE docs[i]]

\* the bytes of a file that was opened for writing and not written yet
NoBytes == "no bytes"

\* os.remove(file_path) when the path exists (safe_file_cleanup)
safe_file_cleanup(dir, filename) ==
    [f \in DOMAIN dir \ {filename} |-> dir[f]]

\* store_mapped_data: the records made of mapped_data, one per row, each
\* with the document_id; run names the request that inserted them
records_of(mapped_data, user, brand, id, run) ==
    [k \in 1..Len(mapped_data) |->
        [ user_id |-> user, brand_id |-> brand, document_id |-> id,
          row |-> mapped_data[k], run |-> run ]]

\* result["mapped_data"] of process_file_with_openai_mapping on a local
\* file: a table of the rows read from its bytes
mapped_data_of(bytes) == << [source |-> bytes] >>
----------------------------------------------------------------------------
(* Inputs of the model *)

\* the column names tables are built from
ColumnNames ==
    { <<"S","a","l","e","s"," ","C","o","u","n","t">>,   \* "Sales Count"
      <<"Q","u","a","n","t","i","t","y">>,   \* "Quantity"
      <<"C","o","u","n","t","r","y">>,   \* "Country"
      <<"S","a","l","e","s"," ","V","a","l","u","e"," ","(","U","S","D",")">>,   \* "Sales Value (USD)"
      <<"S","a","l","e","s"," ","V","a","l","u","e"," ","(","L","C",")">>,   \* "Sales Value (LC)"
      <<"R","e","v","e","n","u","e">>,   \* "Revenue"
      <<"C","a","t","e","g","o","r","y">>,   \* "Category"
      <<"T","o","t","a","l"," ","$">> }   \* "Total $"

RECURSIVE SeqsUpTo(_, _)
\* the sequences of at most n elements of S
SeqsUpTo(S, n) ==
    IF n = 0 THEN {<<>>}
    ELSE LET shorter == SeqsUpTo(S, n - 1)
         IN  shorter \cup
             {Append(s, x) : s \in {q \in shorter : Len(q) = n - 1},
                             x \in S}

\* pandas gives the columns of a table read from a file distinct names
Tables(n) == {t \in SeqsUpTo(ColumnNames, n) :
                 \A i, j \in 1..Len(t) : t[i] = t[j] => i = j}

\* the Month cells and the cells of the other canonical columns of a row
MonthCells ==
    { NaN, int_cell(7), str_cell(<<"J","a","n">>), str_cell(<<"D","E","C","E","M","B","E","R">>),   \* "Jan", "DECEMBER"
      str_cell(<<"M","o","n","t","h"," ","7">>), str_cell(<<"1","3">>), str_cell(<<SuperscriptTwo>>),   \* "Month 7", "13"
      str_cell(<<"n","/","a">>) }   \* "n/a"
OtherCells ==
    { NaN, int_cell(5), float_cell(2, 5), str_cell(<<" ","n","a","n"," ">>), str_cell(<<"a","b","c">>),   \* " nan ", "abc"
      str_cell(<<"i","n","f">>) }   \* "inf"

\* the rows of a mapped table: the nine canonical columns
MappedRows ==
    { [f \in RequiredSet |-> IF f = "Month" THEN month ELSE other] :
          month \in MonthCells, other \in OtherCells }

NoOutcome == [kind |-> "none"]
NoDict == <<>>
NoTable == <<>>

----------------------------------------------------------------------------
(* process_file_with_openai_mapping: the mapper pipeline on a table read  *)
(* from a readable source file                                            *)

Init ==
    /\ columns \in Tables(MaxCols)
    /\ api_key \in BOOLEAN
    /\ use_new_api = FALSE
    /\ outcome = NoOutcome
    /\ classifier_calls = 0
    /\ mapping = NoDict
    /\ validation = NoDict
    /\ df_mapped = NoTable
    /\ df_clean = NoTable
    /\ df_prev = NoTable
    /\ sheets_data = None /\ sheet_scores = <<>> /\ detection = None
    /\ source = None /\ sheet_name = None /\ read_result = None
    /\ documents = <<>> /\ stored_rows = <<>> /\ uploads = <<>>
    /\ requests = <<>>
    /\ pc = "start"

\* OpenAIColumnMapper(): raises when OPENAI_API_KEY is not set, and the
\* except clause of process_file_with_openai_mapping re-raises it
InitMapper ==
    /\ pc = "start"
    /\ IF api_key
       THEN /\ use_new_api' \in BOOLEAN
            /\ pc' = "mapper_ready"
       ELSE /\ use_new_api' = use_new_api
            /\ pc' = "raised"
    /\ UNCHANGED <<columns, api_key, outcome, classifier_calls, mapping,
                   validation,
                   df_mapped, df_clean, df_prev,
                   sheets_data, sheet_scores, detection, source, sheet_name,
                   read_result, documents, stored_rows, uploads, requests>>

\* faulty variant of MapColumns: a call that raised is made once more
MapColumnsRetrying ==
    /\ pc = "mapper_ready"
    /\ \E o \in Outcomes(columns) :
          /\ outcome' = o
          /\ mapping' = map_columns_with_openai(columns, o)
          /\ pc' = IF o.kind = "raise" /\ classifier_calls = 0
                   THEN "mapper_ready" ELSE "mapped"
    /\ classifier_calls' = classifier_calls + 1
    /\ UNCHANGED <<columns, api_key, use_new_api, validation,
                   df_mapped, df_clean, df_prev,
                   sheets_data, sheet_scores, detection, source, sheet_name,
                   read_result, documents, stored_rows, uploads, requests>>

\* openai_mapper.map_columns_with_openai(df, sample_size): one chat
\* completion request, then the parsed answer or the local mapping
MapColumns ==
    /\ pc = "mapper_ready"
    /\ \E o \in Outcomes(columns) :
          /\ outcome' = o
          /\ mapping' = map_columns_with_openai(columns, o)
    /\ classifier_calls' = classifier_calls + 1
    /\ pc' = "mapped"
    /\ UNCHANGED <<columns, api_key, use_new_api, validation,
                   df_mapped, df_clean, df_prev,
                   sheets_data, sheet_scores, detection, source, sheet_name,
                   read_result, documents, stored_rows, uploads, requests>>

\* openai_mapper.validate_mapping(df, mapping)
ValidateMapping ==
    /\ pc = "mapped"
    /\ validation' = validate_mapping(columns, mapping)
    /\ pc' = "validated"
    /\ UNCHANGED <<columns, api_key, use_new_api, outcome, classifier_calls,
                   mapping,
                   df_mapped, df_clean, df_prev,
                   sheets_data, sheet_scores, detection, source, sheet_name,
                   read_result, documents, stored_rows, uploads, requests>>

\* return {..., "mapping": mapping, "validation": validation, ...}
ReturnResult ==
    /\ pc = "validated"
    /\ pc' = "done"
    /\ UNCHANGED <<columns, api_key, use_new_api, outcome, classifier_calls,
                   mapping, validation,
                   df_mapped, df_clean, df_prev,
                   sheets_data, sheet_scores, detection, source, sheet_name,
                   read_result, documents, stored_rows, uploads, requests>>

Next == InitMapper \/ MapColumns \/ ValidateMapping \/ ReturnResult

Spec == Init /\ [][Next]_vars

----------------------------------------------------------------------------
(* _fallback_mapping alone, pass by pass *)

InitLocal ==
    /\ columns \in Tables(MaxLocalCols)
    /\ api_key = FALSE
    /\ use_new_api = FALSE
    /\ outcome = NoOutcome
    /\ classifier_calls = 0
    /\ mapping = NoDict
    /\ validation = NoDict
    /\ df_mapped = NoTable
    /\ df_clean = NoTable
    /\ df_prev = NoTable
    /\ sheets_data = None /\ sheet_scores = <<>> /\ detection = None
    /\ source = None /\ sheet_name = None /\ read_result = None
    /\ documents = <<>> /\ stored_rows = <<>> /\ uploads = <<>>
    /\ requests = <<>>
    /\ pc = "local_start"

\* "Try exact matches first"
ExactPass ==
    /\ pc = "local_start"
    /\ mapping' = tier1_mapping(columns)
    /\ pc' = "exact_done"
    /\ UNCHANGED <<columns, api_key, use_new_api, outcome, classifier_calls,
                   validation,
                   df_mapped, df_clean, df_prev,
                   sheets_data, sheet_scores, detection, source, sheet_name,
                   read_result, documents, stored_rows, uploads, requests>>

\* "If we still have NOT_FOUND mappings, try fuzzy matching"; return mapping
FuzzyPass ==
    /\ pc = "exact_done"
    /\ mapping' = tier2_mapping(columns, mapping)
    /\ pc' = "fuzzy_done"
    /\ UNCHANGED <<columns, api_key, use_new_api, outcome, classifier_calls,
                   validation,
                   df_mapped, df_clean, df_prev,
                   sheets_data, sheet_scores, detection, source, sheet_name,
                   read_result, documents, stored_rows, uploads, requests>>

NextLocal == ExactPass \/ FuzzyPass

SpecLocal == InitLocal /\ [][NextLocal]_vars

----------------------------------------------------------------------------
(* clean_mapped_data, applied to a mapped table and again to its result *)

InitClean ==
    /\ columns = <<>>
    /\ api_key = FALSE
    /\ use_new_api = FALSE
    /\ outcome = NoOutcome
    /\ classifier_calls = 0
    /\ mapping = NoDict
    /\ validation = NoDict
    /\ df_mapped \in SeqsUpTo(MappedRows, MaxRows)
    /\ df_clean = NoTable
    /\ df_prev = NoTable
    /\ sheets_data = None /\ sheet_scores = <<>> /\ detection = None
    /\ source = None /\ sheet_name = None /\ read_result = None
    /\ documents = <<>> /\ stored_rows = <<>> /\ uploads = <<>>
    /\ requests = <<>>
    /\ pc = "clean_start"

\* df_mapped = ExcelProcessor.clean_mapped_data(df_mapped)
CleanMapped ==
    /\ pc = "clean_start"
    /\ df_clean' = clean_mapped_data(df_mapped)
    /\ pc' = "cleaned"
    /\ UNCHANGED <<columns, api_key, use_new_api, outcome, classifier_calls,
                   mapping, validation,
                   df_mapped, df_prev,
                   sheets_data, sheet_scores, detection, source, sheet_name,
                   read_result, documents, stored_rows, uploads, requests>>

\* clean_mapped_data called on the table it returned
CleanAgain ==
    /\ pc = "cleaned"
    /\ df_prev' = df_clean
    /\ df_clean' = clean_mapped_data(df_clean)
    /\ pc' = "recleaned"
    /\ UNCHANGED <<columns, api_key, use_new_api, outcome, classifier_calls,
                   mapping, validation,
                   df_mapped,
                   sheets_data, sheet_scores, detection, source, sheet_name,
                   read_result, documents, stored_rows, uploads, requests>>

NextClean == CleanMapped \/ CleanAgain

SpecClean == InitClean /\ [][NextClean]_vars


----------------------------------------------------------------------------
(* detect_best_sheet_for_analysis on the sheets of a workbook *)

SisoColumns == { << <<"I","M","S">>,   \* "IMS"
                    <<"S","O","H"," ","(","V","o","l",")">>,   \* "SOH (Vol)"
                    <<"P","T","T">> >>,   \* "PTT"
                 << <<"I","M","S">>,   \* "IMS"
                    <<"P","T","T">>,   \* "PTT"
                    <<"S","O","H"," ","(","V","o","l",")">> >>,   \* "SOH (Vol)"
                 << <<"S","O","H"," ","(","V","o","l",")">>,   \* "SOH (Vol)"
                    <<"I","M","S">>,   \* "IMS"
                    <<"P","T","T">> >>,   \* "PTT"
                 << <<"S","O","H"," ","(","V","o","l",")">>,   \* "SOH (Vol)"
                    <<"P","T","T">>,   \* "PTT"
                    <<"I","M","S">> >>,   \* "IMS"
                 << <<"P","T","T">>,   \* "PTT"
                    <<"I","M","S">>,   \* "IMS"
                    <<"S","O","H"," ","(","V","o","l",")">> >>,   \* "SOH (Vol)"
                 << <<"P","T","T">>,   \* "PTT"
                    <<"S","O","H"," ","(","V","o","l",")">>,   \* "SOH (Vol)"
                    <<"I","M","S">> >> }   \* "IMS"
NotesColumns == { << <<"C","o","m","m","e","n","t">>,   \* "Comment"
                     <<"D","a","t","e">> >>,   \* "Date"
                  << <<"D","a","t","e">>,   \* "Date"
                     <<"C","o","m","m","e","n","t">> >> }   \* "Comment"

\* the sheets of the model: name and columns, the number of non-empty rows
\* and, per column, the number of numeric cells (none, or every non-empty
\* row); a table without columns is what the reader gives for a sheet it
\* could not load, and has no rows
Sheets ==
    LET SheetShapes ==
            { <<<<"S","I","S","O">>, c>> : c \in SisoColumns } \cup   \* "SISO"
            { <<<<"N","o","t","e","s">>, c>> : c \in NotesColumns } \cup   \* "Notes"
            { <<<<"S","h","e","e","t","1">>, << <<"U","n","n","a","m","e","d",":"," ","0">>,   \* "Sheet1", "Unnamed: 0"
                <<"U","n","n","a","m","e","d",":"," ","1">>,   \* "Unnamed: 1"
                <<"U","n","n","a","m","e","d",":"," ","2">> >> >>,   \* "Unnamed: 2"
              <<<<"S","h","e","e","t","1">>, <<>> >>,   \* "Sheet1"
              <<<<"Q","1"," ","S","a","l","e","s">>, << <<"S","a","l","e","s">>,   \* "Q1 Sales", "Sales"
                <<"R","e","v","e","n","u","e">>,   \* "Revenue"
                <<"A","m","o","u","n","t">> >> >>,   \* "Amount"
              <<<<"S","t","o","c","k">>, << <<"V","o","l","u","m","e">> >> >> }   \* "Stock", "Volume"
        RowsOf(cols) ==
            IF cols = <<>> THEN {0} ELSE {0, 1, 15 * Point, MaxSheetRows}
        WithRows(s, n) ==
            { [ name |-> s[1], columns |-> s[2], non_empty_rows |-> n,
                numeric_data |-> d ] : d \in [1..Len(s[2]) -> {0, n}] }
    IN  UNION { UNION { WithRows(s, n) : n \in RowsOf(s[2]) } :
                s \in SheetShapes }

\* sheet names are distinct within a workbook
Workbooks ==
    { w \in SeqsUpTo(Sheets, MaxSheets) :
        \A i, j \in 1..Len(w) : w[i].name = w[j].name => i = j }

InitDetect ==
    /\ columns = <<>> /\ api_key = FALSE /\ use_new_api = FALSE
    /\ outcome = NoOutcome /\ classifier_calls = 0 /\ mapping = NoDict /\ validation = NoDict
    /\ df_mapped = NoTable /\ df_clean = NoTable /\ df_prev = NoTable
    /\ sheets_data = None /\ sheet_scores = <<>> /\ detection = None
    /\ source = None /\ sheet_name = None /\ read_result = None
    /\ documents = <<>> /\ stored_rows = <<>> /\ uploads = <<>>
    /\ requests = <<>>
    /\ pc = "detect_start"

\* sheets_data = ExcelProcessor.read_excel_file(file_path): the sheets of
\* the workbook, or the error of a file that cannot be opened, which the
\* except clause wraps
ReadAllSheets ==
    /\ pc = "detect_start"
    /\ \/ /\ \E w \in Workbooks :
                sheets_data' = [kind |-> "returned", sheets |-> w]
          /\ detection' = detection
          /\ pc' = "sheets_read"
       \/ /\ sheets_data' = raised(ErrorProcessingExcel \o UnderlyingCause)
          /\ detection' = raised(ErrorDetecting \o ErrorProcessingExcel
                                 \o UnderlyingCause)
          /\ pc' = "detected"
    /\ UNCHANGED <<columns, api_key, use_new_api, outcome, classifier_calls,
                   mapping, validation, df_mapped, df_clean, df_prev,
                   sheet_scores, source, sheet_name, read_result,
                   documents, stored_rows, uploads, requests>>

\* for sheet_name, sheet_info in sheets_data.items(): ... sheet_scores[...] = ...
ScoreSheets ==
    /\ pc = "sheets_read"
    /\ sheet_scores' = [i \in 1..Len(sheets_data.sheets) |->
                          score_entry(sheets_data.sheets[i])]
    /\ pc' = "scored"
    /\ UNCHANGED <<columns, api_key, use_new_api, outcome, classifier_calls,
                   mapping, validation, df_mapped, df_clean, df_prev,
                   sheets_data, detection,
                   source, sheet_name, read_result, documents, stored_rows,
                   uploads, requests>>

\* "Find the best sheet" and return, or raise
SelectBest ==
    /\ pc = "scored"
    /\ detection' = select_best(sheet_scores)
    /\ pc' = "detected"
    /\ UNCHANGED <<columns, api_key, use_new_api, outcome, classifier_calls,
                   mapping, validation, df_mapped, df_clean, df_prev,
                   sheets_data, sheet_scores,
                   source, sheet_name, read_result, documents, stored_rows,
                   uploads, requests>>

NextDetect == ReadAllSheets \/ ScoreSheets \/ SelectBest

SpecDetect == InitDetect /\ [][NextDetect]_vars

----------------------------------------------------------------------------
(* read_excel_file on a file *)

\* largest number of data rows below the header row of a sheet
MaxDataRows == 2

TitleRows == { << str_cell(<<"S","a","l","e","s"," ","R","e","p","o","r","t">>), NaN, NaN, NaN >>,   \* "Sales Report"
               << NaN, str_cell(<<"R","e","p","o","r","t">>), NaN, NaN >> }   \* "Report"
SecondRows == { << NaN, NaN, NaN, NaN >>,
                << str_cell(<<"Q","1">>), NaN, NaN, NaN >>,   \* "Q1"
                << str_cell(<<"S","a","l","e","s"," ","s","u","m","m","a","r","y">>), NaN, NaN, NaN >> }   \* "Sales summary"
HeaderRows == { << str_cell(<<"P","r","o","d","u","c","t">>), str_cell(<<"S","a","l","e","s">>),   \* "Product", "Sales"
                   str_cell(<<"C","o","u","n","t","r","y">>), str_cell(<<"Y","e","a","r">>) >>,   \* "Country", "Year"
                << str_cell(<<"Y","e","a","r">>), str_cell(<<"C","o","u","n","t","r","y">>),   \* "Year", "Country"
                   str_cell(<<"S","a","l","e","s">>), str_cell(<<"P","r","o","d","u","c","t">>) >> }   \* "Sales", "Product"
DataRows == { << str_cell(<<"W","i","d","g","e","t">>), int_cell(10), str_cell(<<"U","S">>), int_cell(2023) >>,   \* "Widget", "US"
              << str_cell(<<"G","a","d","g","e","t">>), int_cell(5), str_cell(<<"U","K">>), int_cell(2024) >> }   \* "Gadget", "UK"

\* a title row, a second row and the header in row 2
TitledGrids ==
    { <<t, s, h>> \o d : t \in TitleRows, s \in SecondRows, h \in HeaderRows,
                         d \in SeqsUpTo(DataRows, MaxDataRows) }

\* the sheets of the model: with title rows, with a title and the header
\* written twice below it, with the header in row 0, with a title and no
\* header, and without a cell
Grids ==
    TitledGrids \cup
    { <<t, h, k>> \o d : t \in TitleRows, h \in HeaderRows, k \in HeaderRows,
                         d \in SeqsUpTo(DataRows, MaxDataRows) } \cup
    { <<h>> \o d : h \in HeaderRows, d \in SeqsUpTo(DataRows,
        MaxDataRows) } \cup
    { <<t>> \o d : t \in TitleRows, d \in SeqsUpTo(DataRows,
        MaxDataRows) } \cup
    { <<>> }

\* workbooks of one or two sheets, and CSV files
Sources ==
    LET NotesSheet ==
            [ name |-> <<"N","o","t","e","s">>,   \* "Notes"
              grid |-> << << str_cell(<<"C","o","m","m","e","n","t">>), str_cell(<<"D","a","t","e">>) >>,   \* "Comment", "Date"
                          << str_cell(<<"c","h","e","c","k","e","d">>), int_cell(2024) >> >> ]   \* "checked"
    IN
    { [type |-> "excel", readable |-> r,
       sheets |-> <<[name |-> <<"S","h","e","e","t","1">>, grid |-> g]>> \o more] :   \* "Sheet1"
         r \in BOOLEAN, g \in Grids, more \in {<<>>, <<NotesSheet>>} } \cup
    { [type |-> "csv", readable |-> r,
       sheets |-> <<[name |-> <<"u","p","l","o","a","d">>, grid |-> g]>>] :   \* "upload"
         r \in BOOLEAN, g \in Grids }

InitRead ==
    /\ columns = <<>> /\ api_key = FALSE /\ use_new_api = FALSE
    /\ outcome = NoOutcome /\ classifier_calls = 0 /\ mapping = NoDict /\ validation = NoDict
    /\ df_mapped = NoTable /\ df_clean = NoTable /\ df_prev = NoTable
    /\ sheets_data = None /\ sheet_scores = <<>> /\ detection = None
    /\ documents = <<>> /\ stored_rows = <<>> /\ uploads = <<>>
    /\ requests = <<>>
    /\ source \in Sources
    /\ sheet_name \in {None, pinned(<<"S","h","e","e","t","1">>), pinned(<<"N","o","t","e","s">>)}   \* "Sheet1", "Notes"
    /\ read_result = None
    /\ pc = "read_start"

\* ExcelProcessor.read_excel_file(file_path, sheet_name)
ReadExcelFile ==
    /\ pc = "read_start"
    /\ read_result' = read_excel_file(source, sheet_name)
    /\ pc' = "read_done"
    /\ UNCHANGED <<columns, api_key, use_new_api, outcome, classifier_calls,
                   mapping, validation, df_mapped, df_clean, df_prev,
                   sheets_data, sheet_scores, detection, source, sheet_name,
                   documents, stored_rows, uploads, requests>>

NextRead == ReadExcelFile

SpecRead == InitRead /\ [][NextRead]_vars

----------------------------------------------------------------------------
(* upload_and_process_file: requests served by one event loop.  A request  *)
(* runs from one suspension point to the next without another request in   *)
(* between: the calls of SupabaseService do not suspend, the aiofiles      *)
(* calls (open, write, close) and the background upload do.                *)

\* number of requests
MaxRequests == 2

\* the locals of a request at entry: the uploaded file, the user of the
\* token and the organization (brand) of the form
new_request(filename, user, bytes) ==
    [ filename |-> filename, user_id |-> user, organization_id |-> "org-1",
      bytes |-> bytes, pc |-> "start", document_id |-> 0, is_retry |-> FALSE,
      handle |-> 0, response |-> None ]

InitUpload ==
    /\ columns = <<>> /\ api_key = FALSE /\ use_new_api = FALSE
    /\ outcome = NoOutcome /\ classifier_calls = 0 /\ mapping = NoDict /\ validation = NoDict
    /\ df_mapped = NoTable /\ df_clean = NoTable /\ df_prev = NoTable
    /\ sheets_data = None /\ sheet_scores = <<>> /\ detection = None
    /\ source = None /\ sheet_name = None /\ read_result = None
    /\ documents = <<>>
    /\ stored_rows = <<>>
    /\ uploads = <<>>
    /\ requests \in [1..MaxRequests ->
                        { new_request(f, u, b) :
                              f \in { <<"s","a","l","e","s",".","x","l","s","x">>,   \* "sales.xlsx"
                                      <<"s","t","o","c","k",".","c","s","v">>,   \* "stock.csv"
                                      <<"n","o","t","e","s",".","t","x","t">> },   \* "notes.txt"
                              u \in {"user-1", "user-2"},
                              b \in {"bytes-a", "bytes-b"} }]
    /\ pc = "serving"

\* raise HTTPException(status_code=500, detail=f"Processing error: {str(e)}")
processing_error(cause) == [kind |-> "error", status_code |-> 500, cause |-> cause]

\* lines 124-190: the file type, the duplicate check and the document
\* record.  A query of SupabaseService that raises is answered in its except
\* clause: check_duplicate_document returns None, the insert and the status
\* update return False, which the route does not read.
BeginUpload(r) ==
    LET req == requests[r]
    IN  /\ req.pc = "start"
        /\ \E duplicate_info \in
                  { check_duplicate_document(documents, req.filename,
                                             req.user_id,
                                             req.organization_id),
                    None },
              written \in BOOLEAN :
              IF ~allowed_file(req.filename)
              THEN /\ requests' = [requests EXCEPT ![r].pc = "done",
                                      ![r].response = processing_error("file type")]
                   /\ documents' = documents
              ELSE IF duplicate_info = None
              THEN \* uuid.uuid4(): the request number stands for the new id
                   /\ requests' = [requests EXCEPT ![r].pc = "accepted",
                                                   ![r].document_id = r]
                   /\ documents' =
                         IF written
                         THEN insert_document_storage_metadata(
                                  documents, req.filename, req.user_id,
                                  req.organization_id, r)
                         ELSE documents
              ELSE IF ~duplicate_info.is_duplicate /\ duplicate_info.can_retry
              THEN /\ requests' = [requests EXCEPT ![r].pc = "accepted",
                                      ![r].document_id = duplicate_info.document_id,
                                      ![r].is_retry = TRUE]
                   /\ documents' =
                         IF written
                         THEN update_document_storage_status(
                                  documents, duplicate_info.document_id,
                                  "processing")
                         ELSE documents
              ELSE \* the early return for a file that was uploaded already
                   /\ requests' =
                         [requests EXCEPT
                             ![r].pc = "done",
                             ![r].response =
                                 [ kind |-> "returned",
                                   document_id |-> duplicate_info.document_id,
                                   is_duplicate |-> TRUE,
                                   status |-> duplicate_info.status ]]
                   /\ documents' = documents
        /\ UNCHANGED <<columns, api_key, use_new_api, outcome,
                       classifier_calls, mapping, validation, df_mapped,
                       df_clean, df_prev, sheets_data, sheet_scores,
                       detection, source, sheet_name, read_result,
                       stored_rows, uploads, pc>>

\* file.read() and aiofiles.open(file_path, 'wb'): the file at the path is
\* made, or truncated when it is there
OpenLocalFile(r) ==
    LET req == requests[r]
        handle == IF req.filename \in DOMAIN uploads
                  THEN uploads[req.filename].handle ELSE r
    IN  /\ req.pc = "accepted"
        /\ uploads' = (req.filename :> [handle |-> handle, bytes |-> NoBytes])
                      @@ uploads
        /\ requests' = [requests EXCEPT ![r].pc = "opened", ![r].handle = handle]
        /\ UNCHANGED <<columns, api_key, use_new_api, outcome,
                       classifier_calls, mapping, validation, df_mapped,
                       df_clean, df_prev, sheets_data, sheet_scores,
                       detection, source, sheet_name, read_result,
                       documents, stored_rows, pc>>

\* await f.write(file_content): into the file the request opened, which is
\* the file at the path unless that one was removed since
WriteLocalFile(r) ==
    LET req == requests[r]
    IN  /\ req.pc = "opened"
        /\ uploads' = IF /\ req.filename \in DOMAIN uploads
                         /\ uploads[req.filename].handle = req.handle
                      THEN [uploads EXCEPT ![req.filename].bytes = req.bytes]
                      ELSE uploads
        /\ requests' = [requests EXCEPT ![r].pc = "written"]
        /\ UNCHANGED <<columns, api_key, use_new_api, outcome,
                       classifier_calls, mapping, validation, df_mapped,
                       df_clean, df_prev, sheets_data, sheet_scores,
                       detection, source, sheet_name, read_result,
                       documents, stored_rows, pc>>

\* what process_file_with_openai_mapping(file_path, ...) does on the local
\* file: it raises when the path is gone or the file holds no bytes, and
\* otherwise returns the table read from the bytes in the file or raises
\* for a cause of its own (no sheet, no OPENAI_API_KEY)
ProcessOutcomes(dir, filename) ==
    IF filename \notin DOMAIN dir
    THEN {processing_error("file missing")}
    ELSE IF dir[filename].bytes = NoBytes
    THEN {processing_error("file empty")}
    ELSE { [kind |-> "returned", mapped_data |-> mapped_data_of(dir[filename].bytes)],
           processing_error("pipeline") }

\* lines 200-257 after the file is closed: the pipeline, store_mapped_data
\* (the insert succeeds and it returns True, or fails and it returns
\* False), the background task, the response, and the cleanup of the local
\* file in the finally clause
ProcessAndStore(r) ==
    LET req == requests[r]
    IN  /\ req.pc = "written"
        /\ \E result \in ProcessOutcomes(uploads, req.filename) :
              IF result.kind = "error"
              THEN /\ requests' = [requests EXCEPT ![r].pc = "done",
                                                   ![r].response = result]
                   /\ stored_rows' = stored_rows
              ELSE \E store_success \in BOOLEAN :
                      /\ stored_rows' =
                            IF store_success
                            THEN stored_rows \o
                                 records_of(result.mapped_data, req.user_id,
                                            req.organization_id,
                                            req.document_id, r)
                            ELSE stored_rows
                      /\ requests' =
                            [requests EXCEPT
                                ![r].pc = "responded",
                                ![r].response =
                                    [ kind |-> "returned",
                                      document_id |-> req.document_id,
                                      is_duplicate |-> FALSE,
                                      status |-> "processing",
                                      data_stored |-> store_success,
                                      is_retry |-> req.is_retry,
                                      mapped_data |-> result.mapped_data ]]
        /\ uploads' = safe_file_cleanup(uploads, req.filename)
        /\ UNCHANGED <<columns, api_key, use_new_api, outcome,
                       classifier_calls, mapping, validation, df_mapped,
                       df_clean, df_prev, sheets_data, sheet_scores,
                       detection, source, sheet_name, read_result,
                       documents, pc>>

\* store_file_to_supabase_background: the upload to storage succeeds and
\* the status is set to success, or fails and it is set to failed; a status
\* update that fails leaves the record as it is
StoreFileBackground(r) ==
    LET req == requests[r]
    IN  /\ req.pc = "responded"
        /\ \E uploaded \in BOOLEAN, written \in BOOLEAN :
              documents' =
                  IF written
                  THEN update_document_storage_status(
                           documents, req.document_id,
                           IF uploaded THEN "success" ELSE "failed")
                  ELSE documents
        /\ requests' = [requests EXCEPT ![r].pc = "done"]
        /\ UNCHANGED <<columns, api_key, use_new_api, outcome,
                       classifier_calls, mapping, validation, df_mapped,
                       df_clean, df_prev, sheets_data, sheet_scores,
                       detection, source, sheet_name, read_result,
                       stored_rows, uploads, pc>>

NextUpload ==
    \E r \in DOMAIN requests :
        \/ BeginUpload(r)
        \/ OpenLocalFile(r)
        \/ WriteLocalFile(r)
        \/ ProcessAndStore(r)
        \/ StoreFileBackground(r)

SpecUpload == InitUpload /\ [][NextUpload]_vars
----------------------------------------------------------------------------
(* Properties of the mapper pipeline (Spec) *)

\* map_columns_with_openai has returned its mapping
MappingReturned == pc \in {"mapped", "validated", "done"}

\* validate_mapping has returned
ValidationReturned == pc \in {"validated", "done"}

\* the classifier call failed outright: it raised, or its response is no
\* text that parses as a flat mapping
ClassifierFailed ==
    \/ outcome.kind \in {"raise", "no_content"}
    \/ /\ outcome.kind = "content"
       /\ \/ strip_fences(outcome).open # "none"
          \/ outcome.body.t # "object"

\* C1: whatever the classifier did, the key set of the returned mapping is
\* exactly the nine canonical fields.
C1_KeySetIsCanonical ==
    MappingReturned => DOMAIN mapping = RequiredSet

\* C2: whatever the classifier did, every value of the returned mapping is
\* NOT_FOUND or the name of a column of the table.
C2_ValuesAreColumnsOrNotFound ==
    MappingReturned =>
        \A k \in DOMAIN mapping :
            mapping[k] = NOT_FOUND \/ mapping[k] \in Range(columns)

\* C3: when the classifier call fails outright (it raises, or its response
\* does not parse as a flat mapping), the returned mapping is the mapping
\* _fallback_mapping computes for the same table.
C3_FailureReturnsLocalMapping ==
    (MappingReturned /\ ClassifierFailed) =>
        mapping = fallback_mapping(columns)

\* C4: for a readable source file, process_file_with_openai_mapping never
\* ends in an error because of the classifier, whether or not its client
\* can be constructed.
C4_ClassifierNeverSurfaced ==
    pc # "raised"

\* C7: for a table with a column named "Country", the returned mapping never
\* resolves Sales Count to that column.
C7_SalesCountNeverCountry ==
    (MappingReturned /\ <<"C","o","u","n","t","r","y">> \in Range(columns)) =>   \* "Country"
        mapping["Sales Count"] # <<"C","o","u","n","t","r","y">>   \* "Country"

\* the canonical fields the returned mapping resolves to a column of the table
ResolvedCanonical ==
    {f \in RequiredSet : f \in DOMAIN mapping /\ mapping[f] # NOT_FOUND
                                              /\ mapping[f] \in Range(columns)}

\* C10: the quality bucket is decided by (resolved canonical fields) / 9:
\* excellent from 0.8, good from 0.6, fair from 0.4, poor below
\* (8 excellent, 6 and 7 good, 4 and 5 fair, 0..3 poor).
C10_QualityFromNinths ==
    ValidationReturned =>
        validation.mapping_quality =
            CASE Cardinality(ResolvedCanonical) >= 8 -> "excellent"
              [] Cardinality(ResolvedCanonical) \in {6, 7} -> "good"
              [] Cardinality(ResolvedCanonical) \in {4, 5} -> "fair"
              [] OTHER -> "poor"

----------------------------------------------------------------------------
(* Properties of the local mapper (SpecLocal) *)

ExactPassDone == pc \in {"exact_done", "fuzzy_done"}

\* the positions of the table whose name Tier 1 accepts for Sales Count
AcceptedSalesCountAt ==
    {i \in 1..Len(columns) :
        columns[i] \in { <<"Q","u","a","n","t","i","t","y">>,   \* "Quantity"
                         <<"Q","t","y">>,   \* "Qty"
                         <<"V","o","l","u","m","e">>,   \* "Volume"
                         <<"C","o","u","n","t">>,   \* "Count"
                         <<"U","n","i","t","s">>,   \* "Units"
                         <<"S","a","l","e","s"," ","C","o","u","n","t">> }}   \* "Sales Count"

\* C5 as stated: a table with a column "Sales Count" has Sales Count
\* resolved to it by Tier 1, wherever that column stands.
C5_SalesCountAlwaysWins ==
    (ExactPassDone /\ <<"S","a","l","e","s"," ","C","o","u","n","t">> \in Range(columns)) =>   \* "Sales Count"
        mapping["Sales Count"] = <<"S","a","l","e","s"," ","C","o","u","n","t">>   \* "Sales Count"

\* C5 amended: for a table with a column "Sales Count", Tier 1 resolves
\* Sales Count to the first column in table order whose name is an accepted
\* name (Quantity, Qty, Volume, Count, Units, Sales Count); that column is
\* "Sales Count" when no other accepted name stands before it.
C5_FirstAcceptedColumnWins ==
    (ExactPassDone /\ <<"S","a","l","e","s"," ","C","o","u","n","t">> \in Range(columns)) =>   \* "Sales Count"
        /\ \E i \in AcceptedSalesCountAt :
              /\ \A j \in AcceptedSalesCountAt : i <= j
              /\ mapping["Sales Count"] = columns[i]
        /\ (\A i \in AcceptedSalesCountAt :
               \A j \in 1..Len(columns) :
                   columns[j] = <<"S","a","l","e","s"," ","C","o","u","n","t">> => j <= i)   \* "Sales Count"
           => mapping["Sales Count"] = <<"S","a","l","e","s"," ","C","o","u","n","t">>   \* "Sales Count"

\* C5 witness: "Sales Count" stands after another column and is the column
\* Tier 1 resolved Sales Count to.
C5_Witness ==
    /\ pc = "exact_done"
    /\ Len(columns) >= 2
    /\ columns[1] # <<"S","a","l","e","s"," ","C","o","u","n","t">>   \* "Sales Count"
    /\ <<"S","a","l","e","s"," ","C","o","u","n","t">> \in Range(columns)   \* "Sales Count"
    /\ mapping["Sales Count"] = <<"S","a","l","e","s"," ","C","o","u","n","t">>   \* "Sales Count"

\* the name holds a USD indicator (usd, dollar, $), case-insensitively
HasUsdIndicator(name) ==
    \/ contains(lower(name),   \* 
                             <<"u","s","d">>)   \* "usd"
    \/ contains(lower(name),   \* 
                             <<"d","o","l","l","a","r">>)   \* "dollar"
    \/ contains(lower(name),   \* 
                             <<"$">>)   \* "$"

----------------------------------------------------------------------------
(* Properties of the Data Normalizer (SpecClean) *)

\* C8: cleaning the cleaned table again changes neither rows nor cells.
C8_CleanIdempotent ==
    pc = "recleaned" => df_clean = df_prev

\* the rows of the input that clean_mapped_data keeps
KeptRows == dropna_all(df_mapped)

\* C9: every normalized Month is an integer in 0..12; "Jan" gives 1,
\* "DECEMBER" 12, "Month 7" 7, "13" 0, the int 7 gives 7, text without
\* digits and null give 0.
C9_MonthNormalized ==
    (pc = "cleaned" /\ ~clean_raises(df_mapped)) =>
        \A i \in 1..Len(df_clean) :
            /\ df_clean[i]["Month"].t = "int"
            /\ df_clean[i]["Month"].v \in 0..12
            /\ KeptRows[i]["Month"] = str_cell(<<"J","a","n">>)   \* "Jan"
                  => df_clean[i]["Month"].v = 1
            /\ KeptRows[i]["Month"] = str_cell(<<"D","E","C","E","M","B","E","R">>)   \* "DECEMBER"
                  => df_clean[i]["Month"].v = 12
            /\ KeptRows[i]["Month"] = str_cell(<<"M","o","n","t","h"," ","7">>)   \* "Month 7"
                  => df_clean[i]["Month"].v = 7
            /\ KeptRows[i]["Month"] = int_cell(7)
                  => df_clean[i]["Month"].v = 7
            /\ KeptRows[i]["Month"] \in {str_cell(<<"1","3">>), str_cell(<<"n","/","a">>), NaN}   \* "13", "n/a"
                  => df_clean[i]["Month"].v = 0


\* C11: in the table clean_mapped_data returns, every cell of Sales Count,
\* Sales Value (usd), SOH and Year is a number and never null, a value
\* that cannot be coerced to a number is 0, and Year cells are integers.
C11_NumericCellsAreNumbers ==
    pc = "cleaned" =>
        \A i \in 1..Len(df_clean) :
            /\ \A f \in numeric_columns :
                  /\ df_clean[i][f].t \in {"int", "float", "inf"}
                  /\ (i <= Len(KeptRows) /\ to_numeric(KeptRows[i][f]) = NaN)
                        => df_clean[i][f] = float_cell(0, 0)
            /\ df_clean[i]["Year"].t = "int"

----------------------------------------------------------------------------
(* Properties of the tier order (Spec, SpecLocal) *)

\* C17: per canonical field the returned mapping holds the first resolution
\* among Tier 1, Tier 2 and the classifier, in that order: a field the local
\* tiers resolve from the column names keeps that resolution whatever the
\* classifier answers for it.
C17_LocalResolutionKept ==
    MappingReturned =>
        \A f \in RequiredSet :
            fallback_mapping(columns)[f] # NOT_FOUND =>
                /\ f \in DOMAIN mapping
                /\ mapping[f] = fallback_mapping(columns)[f]

\* C18: with no USD-indicator column, a local-currency column and a column
\* of the default accepted list for Sales Value (usd) both in the table,
\* Tier 1 resolves Sales Value (usd) to the default-list column, in either
\* column order.
C18_DefaultListBeforeLocalCurrency ==
    ( /\ ExactPassDone
      /\ usd_columns(columns) = <<>>
      /\ lc_columns(columns) # <<>>
      /\ \E c \in Range(columns) : in_list(c, exact_matches["Sales Value (usd)"]) )
    => in_list(mapping["Sales Value (usd)"], exact_matches["Sales Value (usd)"])

----------------------------------------------------------------------------
(* Properties of the sheet detector (SpecDetect) *)

\* detect_best_sheet_for_analysis has returned a result
DetectionReturned == pc = "detected" /\ detection.kind = "returned"

IsSiso(sheet) == sheet.name = <<"S","I","S","O">> /\ sheet.columns \in SisoColumns   \* "SISO"
IsNotes(sheet) == sheet.name = <<"N","o","t","e","s">> /\ sheet.columns \in NotesColumns   \* "Notes"

\* C12: a sheet "SISO" with columns {IMS, SOH (Vol), PTT} scores strictly
\* higher than a sheet "Notes" with columns {Comment, Date}, whatever the
\* rows and cells of the two, and in the workbook of the two sheets SISO is
\* best_sheet.
C12_SisoBeatsNotes ==
    DetectionReturned =>
        \A i, j \in 1..Len(sheets_data.sheets) :
            (IsSiso(sheets_data.sheets[i]) /\ IsNotes(sheets_data.sheets[j])) =>
                /\ sheet_scores[i].score > sheet_scores[j].score
                /\ Len(sheets_data.sheets) = 2 => detection.best_sheet = <<"S","I","S","O">>   \* "SISO"

\* SISO without a row stands before or after Notes with the most rows
C12_Witness ==
    /\ DetectionReturned
    /\ \E i, j \in 1..Len(sheets_data.sheets) :
          /\ IsSiso(sheets_data.sheets[i]) /\ IsNotes(sheets_data.sheets[j])
          /\ sheets_data.sheets[i].non_empty_rows = 0
          /\ sheets_data.sheets[j].non_empty_rows = MaxSheetRows
    /\ detection.best_sheet = <<"S","I","S","O">>   \* "SISO"

\* the call ended in the error "No sheets found in the file"
RaisedNoSheetsFound ==
    /\ pc = "detected"
    /\ detection.kind = "raised"
    /\ contains(detection.message, NoSheetsFound)

\* C15: when the source yields zero sheets the call ends in the error "No
\* sheets found in the file" and returns no best_sheet; when it yields at
\* least one sheet the call never ends in that error, also when every sheet
\* scores 0.
C15_NoSheetsFoundOnlyWithoutSheets ==
    (pc = "detected" /\ sheets_data.kind = "returned") =>
        IF Len(sheets_data.sheets) = 0
        THEN RaisedNoSheetsFound /\ "best_sheet" \notin DOMAIN detection
        ELSE ~RaisedNoSheetsFound /\ detection.kind = "returned"

\* the source yielded no sheet and the call has ended
C15_Witness ==
    /\ pc = "detected"
    /\ sheets_data.kind = "returned"
    /\ Len(sheets_data.sheets) = 0
    /\ RaisedNoSheetsFound

\* C16: every recorded score is at least 0; best_sheet is one of the scored
\* sheets, its score is at least every other recorded score, and best_score
\* is the score recorded for it.
C16_BestSheetIsMaximal ==
    /\ \A i \in 1..Len(sheet_scores) : sheet_scores[i].score >= 0
    /\ DetectionReturned =>
          \E i \in 1..Len(sheet_scores) :
              /\ sheet_scores[i].name = detection.best_sheet
              /\ sheet_scores[i].score = detection.best_score
              /\ detection.sheet_scores = sheet_scores
              /\ \A j \in 1..Len(sheet_scores) :
                    sheet_scores[j].score <= detection.best_score

\* a result over two sheets, one of which scored below 0 before recording
C16_Witness ==
    /\ DetectionReturned
    /\ Len(sheet_scores) = 2
    /\ \E i \in 1..2 : raw_score(sheets_data.sheets[i]) < 0
    /\ \E i \in 1..2 : sheet_scores[i].score > 0

----------------------------------------------------------------------------
(* Properties of the reader (SpecRead) *)

\* read_excel_file has returned or raised
ReadDone == pc = "read_done"

\* the first sheet of a workbook that opens is read, pinned or with the others
FirstSheetRead ==
    /\ ReadDone
    /\ source.type = "excel"
    /\ source.readable
    /\ sheet_name \in {None, pinned(source.sheets[1].name)}

\* C13: for a sheet whose row 0 is a title row and whose row 2 holds
\* Product, Sales, Country and Year, the table the reader returns has the
\* row-2 values as column names and no title row among its data, for every
\* number of data rows below row 2.
C13_HeaderRowTwoResolved ==
    (FirstSheetRead /\ source.sheets[1].grid \in TitledGrids) =>
        /\ read_result.kind = "returned"
        /\ read_result.sheets[1].data.columns = source.sheets[1].grid[3]
        /\ \A i \in 1..Len(read_result.sheets[1].data.data) :
              read_result.sheets[1].data.data[i] # source.sheets[1].grid[1]

\* the file cannot be read, or the pinned sheet does not load
SourceUnreadable ==
    \/ ~source.readable
    \/ /\ source.type = "excel"
       /\ sheet_name # None
       /\ ~sheet_loads(source, sheet_name.name)

\* C14: when the file or the requested sheet cannot be read, read_excel_file
\* ends in an error that carries the underlying cause; it never returns an
\* empty table in its place, with a pinned sheet or with all sheets read.
C14_UnreadableSourceRaises ==
    (ReadDone /\ SourceUnreadable) =>
        /\ read_result.kind = "raised"
        /\ contains(read_result.message, UnderlyingCause)

----------------------------------------------------------------------------
(* Properties of the upload route (SpecUpload) *)

----------------------------------------------------------------------------
(* The text fields of the cleaned table *)

\* C21: in the table clean_mapped_data returns, every cell of Product Name,
\* Country, Description and Type is trimmed text, never null, and never the
\* text "nan" (it is "Unknown" instead).
C21_TextCellsAreTrimmedText ==
    pc = "cleaned" =>
        \A i \in 1..Len(df_clean) :
            \A f \in {"Product Name", "Country", "Description", "Type"} :
                /\ df_clean[i][f].t = "str"
                /\ strip(df_clean[i][f].v) = df_clean[i][f].v
                /\ df_clean[i][f].v # <<"n","a","n">>   \* "nan"

----------------------------------------------------------------------------
(* The header search of the reader *)

\* the table of the first sheet of a file that opens was returned
FirstTableRead ==
    /\ ReadDone
    /\ source.readable
    /\ source.type = "excel" => sheet_name \in {None, pinned(source.sheets[1].name)}

\* the rows the header search tries and finds valid, in a sheet of the file
ValidTriedRows(grid) ==
    {h \in 1..(Min(HeaderSearchRows, Len(grid) - 1) - 1) :
        is_valid_header(read_excel(grid, h).columns)}

\* C22: when more than half of the row-0 column names are unnamed
\* placeholders and a tried row is a valid header, the returned table is the
\* sheet re-read at the lowest valid row; when at most half are unnamed, the
\* returned table is the sheet read with its row-0 header.
C22_LowestValidHeaderRowWins ==
    FirstTableRead =>
        LET grid == source.sheets[1].grid
            table == read_result.sheets[1].data
        IN  /\ read_result.kind = "returned"
            /\ ~mostly_unnamed(read_excel(grid, 0).columns)
                  => table = read_excel(grid, 0)
            /\ (mostly_unnamed(read_excel(grid, 0).columns)
                   /\ ValidTriedRows(grid) # {})
                  => \E h \in ValidTriedRows(grid) :
                        /\ table = read_excel(grid, h)
                        /\ \A k \in ValidTriedRows(grid) : h <= k

\* a sheet with two valid header rows was read, and the lower one was taken
C22_Witness ==
    /\ FirstTableRead
    /\ Cardinality(ValidTriedRows(source.sheets[1].grid)) = 2
    /\ read_result.sheets[1].data = read_excel(source.sheets[1].grid, 1)
    /\ read_result.sheets[1].data # read_excel(source.sheets[1].grid, 2)

----------------------------------------------------------------------------
(* The header inference fallback *)

\* the header search found no valid row, so the table the reader returned
\* is _infer_headers_from_data of the table read with the row-0 header
HeadersInferred ==
    /\ FirstTableRead
    /\ mostly_unnamed(read_excel(source.sheets[1].grid, 0).columns)
    /\ ValidTriedRows(source.sheets[1].grid) = {}

\* the rows among the first five of a table with a keyword in a non-null value
KeywordRows(df) ==
    {k \in 1..Min(5, Len(df.data)) :
        \E j \in 1..Len(df.data[k]) :
            /\ df.data[k][j] # NaN
            /\ \E w \in 1..Len(infer_keywords) :
                  contains(lower(str_of(df.data[k][j])), infer_keywords[w])}

\* C23: when one of the first five data rows holds a keyword, the values of
\* the first such row are the column names of the result and exactly that
\* row is gone from the data, the other rows keeping order and values; when
\* no row holds a keyword the table is returned unchanged.
C23_InferredHeaderRowRemoved ==
    HeadersInferred =>
        LET df == read_excel(source.sheets[1].grid, 0)
            out == read_result.sheets[1].data
        IN  IF KeywordRows(df) = {} THEN out = df
            ELSE LET i == CHOOSE k \in KeywordRows(df) :
                              \A m \in KeywordRows(df) : k <= m
                 IN  /\ Len(out.columns) = Len(df.data[i])
                     /\ \A j \in 1..Len(df.data[i]) :
                           df.data[i][j] # NaN =>
                               out.columns[j] = str_cell(str_of(df.data[i][j]))
                     /\ Len(out.data) = Len(df.data) - 1
                     /\ \A k \in 1..(i - 1) : out.data[k] = df.data[k]
                     /\ \A k \in i..Len(out.data) : out.data[k] = df.data[k + 1]

\* the second data row held the first keyword: it became the header and the
\* row above it stayed
C23_Witness ==
    /\ HeadersInferred
    /\ 2 \in KeywordRows(read_excel(source.sheets[1].grid, 0))
    /\ 1 \notin KeywordRows(read_excel(source.sheets[1].grid, 0))
    /\ Len(read_result.sheets[1].data.data) = 1

----------------------------------------------------------------------------
(* The numeric-density score of the sheet detector *)

\* the column got the sales-role or the quantity-role bonus of the
\* column-role step
HasSalesOrQuantityRole(col) ==
    \/ any_in(lower(col), << <<"s","a","l","e","s">>,   \* "sales"
                             <<"r","e","v","e","n","u","e">>,   \* "revenue"
                             <<"a","m","o","u","n","t">>,   \* "amount"
                             <<"v","a","l","u","e">> >>)   \* "value"
    \/ /\ ~any_in(lower(col), << <<"p","r","o","d","u","c","t">>,   \* "product"
                                 <<"i","t","e","m">>,   \* "item"
                                 <<"d","e","s","c","r","i","p","t","i","o","n">> >>)   \* "description"
       /\ any_in(lower(col), << <<"q","u","a","n","t","i","t","y">>,   \* "quantity"
                                <<"q","t","y">>,   \* "qty"
                                <<"v","o","l","u","m","e">>,   \* "volume"
                                <<"i","m","s">> >>)   \* "ims"

\* C24: every column with the sales role or the quantity role contributes
\* min(k / 100, 10) to the numeric-density score of its sheet, k being the
\* number of its numeric cells, and the sheet score holds the sum of the
\* contributions capped at 20.
C24_RoleColumnsCountNumericCells ==
    (pc \in {"scored", "detected"} /\ sheets_data.kind = "returned") =>
        \A i \in 1..Len(sheets_data.sheets) :
            LET sheet == sheets_data.sheets[i]
                density == Sum([j \in 1..Len(sheet.columns) |->
                               IF HasSalesOrQuantityRole(sheet.columns[j])
                               THEN Min(2 * sheet.numeric_data[j], 10 * Point)
                               ELSE 0])
            IN  /\ sheet_scores[i].numeric_data_score = density
                /\ sheet_scores[i].score =
                      Max(0, raw_score(sheet)
                             - Min(numeric_data_score(sheet), 20 * Point)
                             + Min(density, 20 * Point))

----------------------------------------------------------------------------
(* The partition validate_mapping makes of the mapping *)

----------------------------------------------------------------------------
(* The classifier round trip *)

\* C26: within one map_columns_with_openai call the classifier is called at
\* most once; the call has returned as soon as the one request was made,
\* and after a failed request (exception or unparseable response) what it
\* returned is a mapping made locally.
C26_ClassifierCalledAtMostOnce ==
    /\ classifier_calls <= 1
    /\ classifier_calls = 1 => MappingReturned
    /\ (MappingReturned /\ ClassifierFailed) =>
          mapping \in {fallback_mapping(columns), create_empty_mapping}

\* the one request raised and the call returned the local mapping
C26_Witness ==
    /\ MappingReturned
    /\ outcome.kind = "raise"
    /\ classifier_calls = 1
    /\ mapping = fallback_mapping(columns)

----------------------------------------------------------------------------
(* The rows clean_mapped_data drops *)

\* C27: the table clean_mapped_data returns has one row for every input
\* row with at least one non-null canonical cell, and no row that is null
\* in all canonical columns.
C27_ExactlyEmptyRowsDropped ==
    pc = "cleaned" =>
        /\ Len(df_clean)
             = Cardinality({i \in 1..Len(df_mapped) :
                               \E f \in RequiredSet : df_mapped[i][f] # NaN})
        /\ \A i \in 1..Len(df_clean) :
              \E f \in RequiredSet : df_clean[i][f] # NaN

----------------------------------------------------------------------------
(* The duplicate-upload guard *)

\* a document record of the file, user and organization of request r is
\* in status processing or success
LiveRecordOf(r) ==
    \E i \in 1..Len(documents) :
        /\ documents[i].document_name = requests[r].filename
        /\ documents[i].user_id = requests[r].user_id
        /\ documents[i].brand_id = requests[r].organization_id
        /\ documents[i].status \in {"processing", "success"}

----------------------------------------------------------------------------
(* The status of a document record at the end of the runs *)

----------------------------------------------------------------------------
(* Status success and the stored rows *)

====
